---- MODULE Spec2Model ----
(***************************************************************************)
(* Model of the capture-comparison scripts under src/pcap:                 *)
(*   compare_pcaps.py        block-structured (pcapng) reader, frame       *)
(*                           decoder, BCUDP decoder (binary path)          *)
(*   analyze_pcap.py         legacy (pcap) reader with its inline decoder  *)
(*   analyze_json.py         BCUDP decoder over hex strings, the packets   *)
(*                           after discovery                               *)
(*   compare_stream_flow.py  Data / Ack decoders over hex strings, flow    *)
(*                           analysis and comparison of two sessions       *)
(*   simple_compare.py       magic search over the file bytes, comparison  *)
(*                           of the first Data packets                     *)
(*                                                                         *)
(* Bytes are integers 0..255 and byte strings are sequences of them.       *)
(* Python offsets are 0-based; Slice(b, i, j) is b[i:j].  An unsigned      *)
(* 32-bit value is kept as a word [hi, lo] of two 16-bit halves (value =   *)
(* hi * 65536 + lo), since the values exceed the checker's integers; a     *)
(* signed 32-bit value is an integer.                                      *)
(***************************************************************************)
EXTENDS Integers, Sequences, FiniteSets, TLC

VARIABLES
    \* ---- BCUDP decoder harness (SpecDecode)
    hdr,        \* the synthetic header the payload was laid out from
    payload,    \* the UDP payload handed to the decoders
    out,        \* last result of each decoder for the current payload
    variants,   \* variants any decoder returned for this 4-byte prefix
    found,      \* last result of the magic search over the payload bytes
    \* ---- frame decoder harness (SpecFrame)
    frame,      \* raw Ethernet frame bytes
    fout,       \* last result of each per-frame pipeline for the frame
    \* ---- container readers (Spec)
    fmt,        \* "pcapng" or "pcap": which script reads the file
    recs,       \* the records the file was laid out from, in file order
    file,       \* the bytes of the capture file (possibly truncated)
    pos,        \* the file object's read position
    pc,         \* position of the reader in its code
    packets,    \* the decoded-packet list being built
    packet_num, \* the script's packet counter
    warnings,   \* number of length-mismatch warnings printed
    lastblk,    \* what the last read_pcapng_block call returned
    \* ---- the scripts' main over two capture files (SpecMain)
    inputs,     \* the record lists of the two files named on the command line
    finished,   \* what each completed analyze call returned, in call order
    pipes,      \* the two analyze_pcapng calls of compare_pcaps.main, each with
                \* its own locals (SpecPair)
    \* ---- analysis and comparison of two sessions (SpecCompare)
    sa,         \* the datagrams of the first capture, in capture order
    sb,         \* the datagrams of the second capture
    report      \* what the last analysis or comparison call reported

vars == <<hdr, payload, out, variants, found, frame, fout,
          fmt, recs, file, pos, pc, packets, packet_num, warnings, lastblk,
          inputs, finished, pipes, sa, sb, report>>

decodeVars == <<hdr, payload, out, variants, found>>
frameVars  == <<frame, fout>>
readerVars == <<fmt, recs, file, pos, pc, packets, packet_num, warnings, lastblk>>
mainVars   == <<inputs, finished, pipes>>
compareVars == <<sa, sb, report>>

-----------------------------------------------------------------------------
(* Bounds of the model *)

\* longest payload handed to the BCUDP decoders
MaxPayloadLen == 29

-----------------------------------------------------------------------------
(* Python byte-string primitives *)

Min(a, b) == IF a < b THEN a ELSE b

\* b[i:j] for 0 <= i: the stop is clamped to the length, never an error
Slice(b, i, j) ==
    LET hi == Min(j, Len(b))
    IN  IF i >= hi THEN <<>> ELSE SubSeq(b, i + 1, hi)

\* b[i:]
SliceFrom(b, i) == Slice(b, i, Len(b))

Word(hi, lo) == [hi |-> hi, lo |-> lo]

\* struct.unpack('<I', b) / int.from_bytes(b, 'little') on a 4-byte string
u32le(b) == Word(b[3] + 256 * b[4], b[1] + 256 * b[2])

\* struct.unpack('>I', b) on a 4-byte string
u32be(b) == Word(256 * b[1] + b[2], 256 * b[3] + b[4])

\* struct.unpack('<i', b) / int.from_bytes(b, 'little', signed=True), 4 bytes
i32le(b) ==
    IF b[4] >= 128
    THEN 16777216 * (b[4] - 256) + 65536 * b[3] + 256 * b[2] + b[1]
    ELSE 16777216 * b[4] + 65536 * b[3] + 256 * b[2] + b[1]

\* struct.unpack('>H', b) on a 2-byte string
u16be(b) == 256 * b[1] + b[2]

\* int.from_bytes(b, 'little') on a string of at most 4 bytes: missing high
\* bytes count as zero (no error on a short slice)
from_bytes_le(b) ==
    LET at(k) == IF k <= Len(b) THEN b[k] ELSE 0
    IN  Word(at(3) + 256 * at(4), at(1) + 256 * at(2))

\* int.from_bytes(b, 'little', signed=True) on a string of at most 4 bytes:
\* the sign bit is the top bit of the last byte present
from_bytes_le_signed(b) ==
    LET n == Len(b)
        mag(k) == IF k = 1 THEN 1 ELSE IF k = 2 THEN 256
                  ELSE IF k = 3 THEN 65536 ELSE 16777216
        term(k) == IF k > n THEN 0
                   ELSE IF k = n /\ b[k] >= 128 THEN mag(k) * (b[k] - 256)
                   ELSE mag(k) * b[k]
    IN  term(4) + term(3) + term(2) + term(1)

-----------------------------------------------------------------------------
(* Hex strings: sequences of one-character strings *)

HexDigits == <<"0", "1", "2", "3", "4", "5", "6", "7",
               "8", "9", "a", "b", "c", "d", "e", "f">>
HexUpper  == <<"0", "1", "2", "3", "4", "5", "6", "7",
               "8", "9", "A", "B", "C", "D", "E", "F">>

HexChars == {HexDigits[i] : i \in 1..16} \cup {HexUpper[i] : i \in 1..16}

IsHexChar(c) == c \in HexChars

\* the value of each hexadecimal digit, either case
HexTable == [c \in HexChars |->
               (CHOOSE i \in 1..16 : HexDigits[i] = c \/ HexUpper[i] = c) - 1]

HexVal(c) == HexTable[c]

\* the capture tool's rendering of a payload: two lowercase digits per byte,
\* bytes separated by sep (":" or " ")
to_hex(b, sep) ==
    IF Len(b) = 0 THEN <<>>
    ELSE [k \in 1..(3 * Len(b) - 1) |->
            IF (k - 1) % 3 = 0 THEN HexDigits[(b[(k - 1) \div 3 + 1] \div 16) + 1]
            ELSE IF (k - 1) % 3 = 1 THEN HexDigits[(b[(k - 1) \div 3 + 1] % 16) + 1]
            ELSE sep]

\* hex_to_bytes: drop ':' and ' ', then bytes.fromhex; any error gives b''
hex_to_bytes(hex_str) ==
    LET s == SelectSeq(hex_str, LAMBDA c : c # ":" /\ c # " ")
    IN  IF Len(s) % 2 # 0 \/ (\E k \in 1..Len(s) : ~IsHexChar(s[k]))
        THEN <<>>
        ELSE [k \in 1..(Len(s) \div 2) |->
                16 * HexVal(s[2 * k - 1]) + HexVal(s[2 * k])]

-----------------------------------------------------------------------------
(* BCUDP magic constants, as the 32-bit numbers the scripts define *)

BCUDP_MAGIC_DISCOVERY == Word(15055, 34602)   \* 0x3acf872a
BCUDP_MAGIC_DATA      == Word(4303, 34602)    \* 0x10cf872a
BCUDP_MAGIC_ACK       == Word(8399, 34602)    \* 0x20cf872a

\* results: every result is a record with a type; "need" is the highest
\* slice stop the path taken asks of the buffer
None(n) == [type |-> "none", need |-> n]
Raised(n) == [type |-> "raise", need |-> n]
Unset == [type |-> "unset"]

-----------------------------------------------------------------------------
(* compare_pcaps.py: BCUDP decoder of the binary path *)

\* the three struct.unpack calls of a Data / Ack branch: struct.error when a
\* slice is not 4 bytes long
unpack_fields_m(p, kind) ==
    LET a == Slice(p, 4, 8)
        b == Slice(p, 8, 12)
        c == Slice(p, 16, 20)
    IN  IF Len(a) # 4 \/ Len(b) # 4 \/ Len(c) # 4 THEN Raised(20)
        ELSE IF kind = "data"
        THEN [type |-> "data", connection_id |-> i32le(a),
              packet_id |-> u32le(b), payload_len |-> u32le(c), need |-> 20]
        ELSE [type |-> "ack", connection_id |-> i32le(a),
              group_id |-> u32le(b), packet_id |-> u32le(c), need |-> 20]
unpack_fields(p, kind) ==
    LET a == Slice(p, 4, 8)
        b == Slice(p, 12, 16)
        c == Slice(p, 16, 20)
    IN  IF Len(a) # 4 \/ Len(b) # 4 \/ Len(c) # 4 THEN Raised(20)
        ELSE IF kind = "data"
        THEN [type |-> "data", connection_id |-> i32le(a),
              packet_id |-> u32le(b), payload_len |-> u32le(c), need |-> 20]
        ELSE [type |-> "ack", connection_id |-> i32le(a),
              group_id |-> u32le(b), packet_id |-> u32le(c), need |-> 20]

data_too_short_m(p) == Len(p) < 16
\* if len(udp_payload) < 20: return None
data_too_short(p) == Len(p) < 20

\* if len(udp_payload) < 28: return None
ack_too_short(p) == Len(p) < 28

parse_bcudp_packet(udp_payload) ==
    IF Len(udp_payload) < 4 THEN None(0)
    ELSE LET magic == u32le(Slice(udp_payload, 0, 4))
         IN  IF magic = BCUDP_MAGIC_DISCOVERY
             THEN [type |-> "discovery", need |-> 4]
             ELSE IF magic = BCUDP_MAGIC_DATA
             THEN IF data_too_short(udp_payload) THEN None(4)
                  ELSE unpack_fields(udp_payload, "data")
             ELSE IF magic = BCUDP_MAGIC_ACK
             THEN IF ack_too_short(udp_payload) THEN None(4)
                  ELSE unpack_fields(udp_payload, "ack")
             ELSE None(4)

-----------------------------------------------------------------------------
(* analyze_json.py: BCUDP decoder of the hex-string path *)

\* the int.from_bytes calls of a Data / Ack branch: no error on a short slice
from_bytes_fields(data, kind) ==
    LET a == Slice(data, 4, 8)
        b == Slice(data, 12, 16)
        c == Slice(data, 16, 20)
    IN  IF kind = "data"
        THEN [type |-> "data", connection_id |-> from_bytes_le_signed(a),
              packet_id |-> from_bytes_le(b), payload_len |-> from_bytes_le(c),
              need |-> 20]
        ELSE [type |-> "ack", connection_id |-> from_bytes_le_signed(a),
              group_id |-> from_bytes_le(b), packet_id |-> from_bytes_le(c),
              need |-> 20]

\* the whole body runs under try/except, which turns any error into None
json_parse_bcudp_packet(udp_data_hex) ==
    LET data == hex_to_bytes(udp_data_hex)
    IN  IF Len(data) < 4 THEN None(0)
        ELSE LET magic == u32be(Slice(data, 0, 4))
             IN  IF magic = BCUDP_MAGIC_DISCOVERY
                 THEN [type |-> "discovery", need |-> 4]
                 ELSE IF magic = BCUDP_MAGIC_DATA
                 THEN IF Len(data) < 20 THEN None(4)
                      ELSE from_bytes_fields(data, "data")
                 ELSE IF magic = BCUDP_MAGIC_ACK
                 THEN IF Len(data) < 28 THEN None(4)
                      ELSE from_bytes_fields(data, "ack")
                 ELSE None(4)

-----------------------------------------------------------------------------
(* compare_stream_flow.py: Data and Ack decoders *)

parse_bcudp_data(data) ==
    IF Len(data) < 20 THEN None(0)
    ELSE IF u32be(Slice(data, 0, 4)) # BCUDP_MAGIC_DATA THEN None(4)
    ELSE from_bytes_fields(data, "data")

parse_bcudp_ack_m(data) ==
    IF Len(data) < 28 THEN None(0)
    ELSE from_bytes_fields(data, "ack")
parse_bcudp_ack(data) ==
    IF Len(data) < 28 THEN None(0)
    ELSE IF u32be(Slice(data, 0, 4)) # BCUDP_MAGIC_ACK THEN None(4)
    ELSE from_bytes_fields(data, "ack")

\* extract_stream_packets, for one record's payload: Data is tried first,
\* then Ack; the record is skipped when neither decodes
stream_classify(payload_hex) ==
    LET bytes_data == hex_to_bytes(payload_hex)
    IN  IF Len(bytes_data) < 4 THEN None(0)
        ELSE LET pkt_data == parse_bcudp_data(bytes_data)
             IN  IF pkt_data.type # "none" THEN pkt_data
                 ELSE LET pkt_ack == parse_bcudp_ack(bytes_data)
                      IN  [pkt_ack EXCEPT !.need =
                              IF pkt_data.need > @ THEN pkt_data.need ELSE @]

-----------------------------------------------------------------------------
(* simple_compare.py: search of a whole file for the magic byte patterns *)

\* bytes.hex(): two lowercase digits per byte, no separator
hex(b) ==
    [k \in 1..(2 * Len(b)) |->
        IF k % 2 = 1 THEN HexDigits[(b[(k + 1) \div 2] \div 16) + 1]
        ELSE HexDigits[(b[k \div 2] % 16) + 1]]

\* data.find(pattern, offset): the first index at or after offset where the
\* 4-byte pattern starts, or -1
find(data, pattern, offset) ==
    LET hits == {i \in offset..(Len(data) - 4) : Slice(data, i, i + 4) = pattern}
    IN  IF hits = {} THEN -1 ELSE CHOOSE i \in hits : \A j \in hits : i <= j

find_data_fits_m(data, at) == Len(data) >= at + 16
\* pkt_type == 'data' and len(data) >= at + 20
find_data_fits(data, at) == Len(data) >= at + 20

\* pkt_type == 'ack' and len(data) >= at + 28
find_ack_fits(data, at) == Len(data) >= at + 28

\* the entry appended for a hit of pkt_type at at, as 0 or 1 entries
find_entry(data, at, pkt_type) ==
    LET a == Slice(data, at + 4, at + 8)
        b == Slice(data, at + 12, at + 16)
        c == Slice(data, at + 16, at + 20)
        short == Len(a) # 4 \/ Len(b) # 4 \/ Len(c) # 4
    IN  IF pkt_type = "data" /\ find_data_fits(data, at)
        THEN IF short THEN << [type |-> "raise", offset |-> at] >>
             ELSE << [type |-> "data", offset |-> at, connection_id |-> i32le(a),
                      packet_id |-> u32le(b), payload_len |-> u32le(c),
                      hex |-> hex(Slice(data, at, at + 40))] >>
        ELSE IF pkt_type = "ack" /\ find_ack_fits(data, at)
        THEN IF short THEN << [type |-> "raise", offset |-> at] >>
             ELSE << [type |-> "ack", offset |-> at, connection_id |-> i32le(a),
                      group_id |-> u32le(b), packet_id |-> u32le(c),
                      hex |-> hex(Slice(data, at, at + 56))] >>
        ELSE IF pkt_type = "discovery"
        THEN << [type |-> "discovery", offset |-> at,
                 hex |-> hex(Slice(data, at, at + 100))] >>
        ELSE <<>>

\* the while loop of find_bcudp_packets from a search offset on: the
\* earliest hit of the three patterns is taken, the search resumes 4 bytes
\* after it
RECURSIVE find_scan(_, _)
find_scan(data, offset) ==
    LET found_discovery == find(data, <<58, 207, 135, 42>>, offset)
        found_data == find(data, <<16, 207, 135, 42>>, offset)
        found_ack == find(data, <<32, 207, 135, 42>>, offset)
        positions ==
            (IF found_discovery >= 0 THEN {<<found_discovery, "discovery">>} ELSE {})
            \cup (IF found_data >= 0 THEN {<<found_data, "data">>} ELSE {})
            \cup (IF found_ack >= 0 THEN {<<found_ack, "ack">>} ELSE {})
    IN  IF positions = {} THEN <<>>
        ELSE LET first == CHOOSE q \in positions : \A r \in positions : q[1] <= r[1]
                 entry == find_entry(data, first[1], first[2])
             IN  IF entry # <<>> /\ entry[1].type = "raise" THEN entry
                 ELSE entry \o find_scan(data, first[1] + 4)

find_bcudp_packets(data) == find_scan(data, 0)

-----------------------------------------------------------------------------
(* Payloads handed to the decoders: a header laid out by the wire layout     *)
(* table (magic at 0, connection_id at 4, a word at 12, a word at 16), cut   *)
(* to some length                                                            *)

\* the 4 bytes of a magic number as they appear on the wire (3a cf 87 2a)
MagicWire(w) == <<w.hi \div 256, w.hi % 256, w.lo \div 256, w.lo % 256>>
\* the same number stored least significant byte first (2a 87 cf 3a)
MagicLE(w) == <<w.lo % 256, w.lo \div 256, w.hi % 256, w.hi \div 256>>

MagicNumbers == {BCUDP_MAGIC_DISCOVERY, BCUDP_MAGIC_DATA, BCUDP_MAGIC_ACK}

Magics ==
    {MagicWire(m) : m \in MagicNumbers} \cup {MagicLE(m) : m \in MagicNumbers}
    \cup {<<16, 207, 135, 43>>, <<0, 0, 0, 0>>}

\* field values: connection_id, the word at offset 12, the word at offset 16
FieldValues ==
    { [conn |-> -2147483647 - 1, f12 |-> Word(65535, 65535), f16 |-> Word(32768, 0)],
      [conn |-> -1, f12 |-> Word(0, 1), f16 |-> Word(1, 2)],
      [conn |-> 258, f12 |-> Word(32768, 515), f16 |-> Word(0, 0)] }

Headers ==
    { [magic |-> m, conn |-> v.conn, f12 |-> v.f12, f16 |-> v.f16] :
        m \in Magics, v \in FieldValues }

enc_u32le(w) == <<w.lo % 256, w.lo \div 256, w.hi % 256, w.hi \div 256>>

enc_nat_le(n) ==
    <<n % 256, (n \div 256) % 256, (n \div 65536) % 256, n \div 16777216>>

enc_i32le(v) ==
    IF v >= 0 THEN enc_nat_le(v)
    ELSE LET e == enc_nat_le((v + 2147483647) + 1)
         IN  <<e[1], e[2], e[3], e[4] + 128>>

Layout(h) ==
    h.magic \o enc_i32le(h.conn) \o <<170, 187, 204, 221>>
    \o enc_u32le(h.f12) \o enc_u32le(h.f16)
    \o [k \in 1..(MaxPayloadLen - 20) |-> (37 * k) % 256]

Cut(b, n) == SubSeq(b, 1, Min(n, Len(b)))

NoOut == [pcapng |-> Unset, json |-> Unset, stream |-> Unset]

\* the variant a result names, if any
Variant(r) == IF r.type \in {"discovery", "data", "ack"} THEN {r.type} ELSE {}

NoHeader == [magic |-> <<0, 0, 0, 0>>, conn |-> 0, f12 |-> Word(0, 0), f16 |-> Word(0, 0)]

\* compare_pcaps.parse_bcudp_packet(payload)
CallParseBcudpPacket ==
    /\ LET r == parse_bcudp_packet(payload)
       IN  /\ out' = [out EXCEPT !.pcapng = r]
           /\ variants' = variants \cup Variant(r)
    /\ UNCHANGED <<hdr, payload, found>>

\* analyze_json.parse_bcudp_packet(hex of the payload)
CallJsonParseBcudpPacket ==
    \E sep \in {":", " "} :
        /\ LET r == json_parse_bcudp_packet(to_hex(payload, sep))
           IN  /\ out' = [out EXCEPT !.json = r]
               /\ variants' = variants \cup Variant(r)
        /\ UNCHANGED <<hdr, payload, found>>

\* compare_stream_flow.extract_stream_packets on a record with this payload
CallStreamClassify ==
    \E sep \in {":", " "} :
        /\ LET r == stream_classify(to_hex(payload, sep))
           IN  /\ out' = [out EXCEPT !.stream = r]
               /\ variants' = variants \cup Variant(r)
        /\ UNCHANGED <<hdr, payload, found>>

\* simple_compare.find_bcudp_packets on a file whose bytes are the payload
CallFindBcudpPackets ==
    /\ found' = [type |-> "found", packets |-> find_bcudp_packets(payload)]
    /\ UNCHANGED <<hdr, payload, out, variants>>

\* the next payload keeps the header and has one byte more
Grow ==
    /\ Len(payload) < MaxPayloadLen
    /\ payload' = Cut(Layout(hdr), Len(payload) + 1)
    /\ out' = NoOut
    /\ found' = Unset
    /\ UNCHANGED <<hdr, variants>>

\* the next payload keeps the header and has one byte less
Shrink ==
    /\ Len(payload) > 0
    /\ payload' = Cut(Layout(hdr), Len(payload) - 1)
    /\ out' = NoOut
    /\ found' = Unset
    /\ UNCHANGED <<hdr, variants>>

\* the next payload keeps the first 4 bytes and the length, and carries other
\* field values
Refill ==
    /\ \E h \in Headers :
          /\ h.magic = hdr.magic /\ h # hdr
          /\ hdr' = h
          /\ payload' = Cut(Layout(h), Len(payload))
    /\ out' = NoOut
    /\ found' = Unset
    /\ UNCHANGED variants

-----------------------------------------------------------------------------
(* compare_pcaps.py: frame decoder *)

extract_udp_packet_m(packet_data) ==
    IF Len(packet_data) < 42 THEN None(0)
    ELSE IF packet_data[14 + 1] # 69 THEN None(15)
    ELSE LET ip_header == Slice(packet_data, 14, 34)
             udp_header == Slice(packet_data, 34, 42)
             udp_length == u16be(Slice(udp_header, 4, 6))
         IN  [type |-> "udp",
              src_ip |-> Slice(ip_header, 12, 16),
              dst_ip |-> Slice(ip_header, 16, 20),
              src_port |-> u16be(Slice(udp_header, 0, 2)),
              dst_port |-> u16be(Slice(udp_header, 2, 4)),
              payload |-> Slice(packet_data, 42, 42 + udp_length - 8)]
extract_udp_packet(packet_data) ==
    IF Len(packet_data) < 42 THEN None(0)
    ELSE IF packet_data[14 + 1] # 69 THEN None(15)      \* 0x45
    ELSE LET ip_header == Slice(packet_data, 14, 34)
             protocol == ip_header[9 + 1]
         IN  IF protocol # 17 THEN None(34)
             ELSE LET udp_header == Slice(packet_data, 34, 42)
                      udp_length == u16be(Slice(udp_header, 4, 6))
                  IN  [type |-> "udp",
                       src_ip |-> Slice(ip_header, 12, 16),
                       dst_ip |-> Slice(ip_header, 16, 20),
                       src_port |-> u16be(Slice(udp_header, 0, 2)),
                       dst_port |-> u16be(Slice(udp_header, 2, 4)),
                       payload |-> Slice(packet_data, 42, 42 + udp_length - 8)]

\* analyze_pcapng, from a frame to the entry it appends (or nothing)
pcapng_frame(packet_data) ==
    LET udp_pkt == extract_udp_packet(packet_data)
    IN  IF udp_pkt.type # "udp" THEN None(0)
        ELSE LET bcudp_pkt == parse_bcudp_packet(udp_pkt.payload)
             IN  IF bcudp_pkt.type \in {"none", "raise"}
                 THEN [type |-> bcudp_pkt.type, need |-> 0]
                 ELSE [type |-> bcudp_pkt.type,
                       src_ip |-> udp_pkt.src_ip, dst_ip |-> udp_pkt.dst_ip,
                       src_port |-> udp_pkt.src_port, dst_port |-> udp_pkt.dst_port,
                       bcudp |-> bcudp_pkt,
                       payload |-> udp_pkt.payload]

-----------------------------------------------------------------------------
(* analyze_pcap.py: the per-frame part of the legacy pipeline *)

\* lines 54-94: ports are unpacked from ip_header[20:22] and [22:24], slices
\* of the 20-byte ip_header; struct.unpack needs 2 bytes
legacy_frame(packet_data) ==
    IF Len(packet_data) < 42 THEN None(0)
    ELSE LET ip_header == Slice(packet_data, 14, 34)
         IN  IF ip_header[0 + 1] # 69 THEN None(15)
             ELSE IF ip_header[9 + 1] # 17 THEN None(34)
             ELSE LET sp == Slice(ip_header, 20, 22)
                      dp == Slice(ip_header, 22, 24)
                      udp_data == SliceFrom(packet_data, 42)
                      magic == Slice(udp_data, 0, 4)
                  IN  IF Len(sp) # 2 \/ Len(dp) # 2 THEN Raised(38)
                      ELSE IF Len(udp_data) < 4 THEN None(42)
                      ELSE IF magic = <<58, 207, 135, 42>>
                      THEN [type |-> "discovery", src_port |-> u16be(sp),
                            dst_port |-> u16be(dp), payload |-> Slice(udp_data, 0, 100)]
                      ELSE IF magic = <<32, 207, 135, 42>>
                      THEN [type |-> "ack", src_port |-> u16be(sp),
                            dst_port |-> u16be(dp), payload |-> Slice(udp_data, 0, 50)]
                      ELSE IF magic = <<16, 207, 135, 42>>
                      THEN [type |-> "data", src_port |-> u16be(sp),
                            dst_port |-> u16be(dp), payload |-> Slice(udp_data, 0, 50)]
                      ELSE None(46)

-----------------------------------------------------------------------------
(* Frames handed to the frame decoders: Ethernet + IPv4 + UDP headers laid   *)
(* out from a few field choices, a BCUDP payload, two bytes of padding, cut  *)
(* to some length                                                            *)

\* longest frame handed to the frame decoders
MaxFrameLen == 66

enc_u16be(n) == <<n \div 256, n % 256>>

Zeros(n) == [k \in 1..n |-> 0]

FramePayloads ==
    { MagicWire(BCUDP_MAGIC_DISCOVERY),
      MagicLE(BCUDP_MAGIC_DISCOVERY) \o <<1, 2>>,
      Cut(Layout([magic |-> MagicWire(BCUDP_MAGIC_DATA), conn |-> -1,
                  f12 |-> Word(0, 1), f16 |-> Word(1, 2)]), 20),
      Cut(Layout([magic |-> MagicLE(BCUDP_MAGIC_DATA), conn |-> 258,
                  f12 |-> Word(0, 1), f16 |-> Word(1, 2)]), 20) }

\* 14 bytes of link header, 20 of IPv4 (version/IHL at 14, protocol at 23,
\* addresses at 26 and 30), 8 of UDP (ports, length, checksum), the payload
EthFrame(ver, proto, src_ip, udp_length, pl) ==
    Zeros(12) \o <<8, 0>>
    \o <<ver>> \o Zeros(8) \o <<proto>> \o <<0, 0>> \o src_ip \o <<10, 0, 0, 7>>
    \o enc_u16be(4660) \o enc_u16be(258) \o enc_u16be(udp_length) \o <<0, 0>>
    \o pl \o <<238, 239>>

Frames ==
    { EthFrame(ver, proto, <<192, 168, 1, 10>>, ul, pl) :
        ver \in {69, 70}, proto \in {17, 6},
        ul \in {0, 7, 8, 12, 28, 65535}, pl \in FramePayloads }

NoFout == [udp |-> Unset, pcapng |-> Unset, legacy |-> Unset]

CallExtractUdpPacket ==
    /\ fout' = [fout EXCEPT !.udp = extract_udp_packet(frame)]
    /\ UNCHANGED frame

CallPcapngFrame ==
    /\ fout' = [fout EXCEPT !.pcapng = pcapng_frame(frame)]
    /\ UNCHANGED frame

CallLegacyFrame ==
    /\ fout' = [fout EXCEPT !.legacy = legacy_frame(frame)]
    /\ UNCHANGED frame

-----------------------------------------------------------------------------
(* File objects: f.read(n) returns the bytes from the read position, fewer   *)
(* than n at end of file, and advances the position by what it returned      *)

Read(f, p, n) == Slice(f, p, p + n)

\* a 32-bit length as an integer.  Lengths of 2^30 and more are kept as 2^30:
\* every file of the model is far shorter, so a read of that many bytes
\* returns the rest of the file either way
AsLen(w) == IF w.hi >= 16384 THEN 1073741824 ELSE w.hi * 65536 + w.lo

-----------------------------------------------------------------------------
(* compare_pcaps.py: block-structured reader *)

SHB_TYPE == Word(2573, 3338)      \* 0x0A0D0D0A
EPB_TYPE == Word(0, 6)

NoBlock(p) == [ok |-> FALSE, pos |-> p, warn |-> 0]

\* udp_pkt['payload'].hex()[:100]
raw_payload(udp_payload) == Slice(hex(udp_payload), 0, 100)

read_pcapng_block_m(f, p) ==
    LET block_length == AsLen(u32le(Read(f, p + 4, 4)))
        block_body == Read(f, p + 8, block_length - 8)
        trailing_length_data == Read(f, p + block_length, 4)
    IN  IF Len(Read(f, p, 4)) < 4 THEN NoBlock(p + Len(Read(f, p, 4)))
        ELSE IF Len(Read(f, p + 4, 4)) < 4 THEN NoBlock(p + 4 + Len(Read(f, p + 4, 4)))
        ELSE IF block_length < 12 THEN NoBlock(p + 8)
        ELSE IF Len(block_body) < block_length - 8 THEN NoBlock(p + 8 + Len(block_body))
        ELSE IF Len(trailing_length_data) < 4
        THEN NoBlock(p + block_length + Len(trailing_length_data))
        ELSE IF u32le(trailing_length_data) # u32le(Read(f, p + 4, 4))
        THEN NoBlock(p + block_length + 4)
        ELSE [ok |-> TRUE, start |-> p,
              block_type |-> u32le(Read(f, p, 4)),
              block_length |-> u32le(Read(f, p + 4, 4)),
              trailing_length |-> u32le(trailing_length_data),
              block_body |-> block_body,
              pos |-> p + block_length + 4,
              warn |-> 0]
\* one call of read_pcapng_block with the file position at p: the block (or
\* None), the position the call leaves, and whether it printed the warning
read_pcapng_block(f, p) ==
    LET block_type_data == Read(f, p, 4)
    IN  IF Len(block_type_data) < 4 THEN NoBlock(p + Len(block_type_data))
        ELSE
        LET block_length_data == Read(f, p + 4, 4)
        IN  IF Len(block_length_data) < 4 THEN NoBlock(p + 4 + Len(block_length_data))
            ELSE
            LET block_length == AsLen(u32le(block_length_data))
            IN  IF block_length < 12 THEN NoBlock(p + 8)
                ELSE
                LET block_body == Read(f, p + 8, block_length - 8)
                IN  IF Len(block_body) < block_length - 8
                    THEN NoBlock(p + 8 + Len(block_body))
                    ELSE
                    LET trailing_length_data == Read(f, p + block_length, 4)
                    IN  IF Len(trailing_length_data) < 4
                        THEN NoBlock(p + block_length + Len(trailing_length_data))
                        ELSE [ok |-> TRUE,
                              start |-> p,
                              block_type |-> u32le(block_type_data),
                              block_length |-> u32le(block_length_data),
                              trailing_length |-> u32le(trailing_length_data),
                              block_body |-> block_body,
                              pos |-> p + block_length + 4,
                              warn |-> IF u32le(trailing_length_data)
                                          # u32le(block_length_data)
                                       THEN 1 ELSE 0]

parse_enhanced_packet_block(block_body) ==
    IF Len(block_body) < 16 THEN None(0)
    ELSE LET timestamp_high == u32le(Slice(block_body, 4, 8))
             timestamp_low == u32le(Slice(block_body, 8, 12))
             captured_len == AsLen(u32le(Slice(block_body, 12, 16)))
         IN  [type |-> "epb",
              interface_id |-> u32le(Slice(block_body, 0, 4)),
              \* (timestamp_high << 32) | timestamp_low
              timestamp |-> [high |-> timestamp_high, low |-> timestamp_low],
              packet_data |-> Slice(block_body, 16, 16 + captured_len)]

pcapng_entries_m(block, num) ==
    LET epb == parse_enhanced_packet_block(block.block_body)
        e == IF epb.type = "epb" THEN pcapng_frame(epb.packet_data) ELSE None(0)
    IN  IF e.type \in {"none", "raise"} THEN <<>>
        ELSE << [num |-> num, timestamp |-> epb.timestamp,
                 src_ip |-> e.src_ip, dst_ip |-> e.dst_ip,
                 src_port |-> e.src_port, dst_port |-> e.dst_port,
                 bcudp |-> e.bcudp, raw_payload |-> raw_payload(e.payload)] >>
\* the entry analyze_pcapng appends for a block, as a sequence of 0 or 1
\* entries; num is the value of packet_num
pcapng_entries(block, num) ==
    IF block.block_type # EPB_TYPE THEN <<>>
    ELSE LET epb == parse_enhanced_packet_block(block.block_body)
         IN  IF epb.type # "epb" THEN <<>>
             ELSE LET e == pcapng_frame(epb.packet_data)
                  IN  IF e.type \in {"none", "raise"} THEN <<>>
                      ELSE << [num |-> num, timestamp |-> epb.timestamp,
                               src_ip |-> e.src_ip, dst_ip |-> e.dst_ip,
                               src_port |-> e.src_port, dst_port |-> e.dst_port,
                               bcudp |-> e.bcudp,
                               raw_payload |-> raw_payload(e.payload)] >>

NoLast == [ok |-> FALSE, pos |-> 0, warn |-> 0]

\* analyze_pcapng up to the loop: the Section Header Block
ReadSectionHeader ==
    /\ fmt = "pcapng" /\ pc = "start"
    /\ LET first_block == read_pcapng_block(file, pos)
       IN  /\ lastblk' = first_block
           /\ pos' = first_block.pos
           /\ warnings' = warnings + first_block.warn
           /\ pc' = IF ~first_block.ok \/ first_block.block_type # SHB_TYPE
                    THEN "invalid" ELSE "loop"
    /\ UNCHANGED <<fmt, recs, file, packets, packet_num>>

\* one iteration of the while loop of analyze_pcapng
ReadBlock ==
    /\ fmt = "pcapng" /\ pc = "loop"
    /\ LET block == read_pcapng_block(file, pos)
       IN  /\ lastblk' = block
           /\ pos' = block.pos
           /\ warnings' = warnings + block.warn
           /\ IF ~block.ok
              THEN /\ pc' = "done"
                   /\ UNCHANGED <<packets, packet_num>>
              ELSE /\ pc' = "loop"
                   /\ packets' = packets \o pcapng_entries(block, packet_num)
                   /\ packet_num' = packet_num + Len(pcapng_entries(block, packet_num))
    /\ UNCHANGED <<fmt, recs, file>>

-----------------------------------------------------------------------------
(* analyze_pcap.py: legacy reader *)

PCAP_MAGIC == <<212, 195, 178, 161>>      \* b'\xd4\xc3\xb2\xa1'

\* read_pcap_header with the file position at p: None on a wrong magic;
\* struct.unpack raises when one of the three following reads comes back short
read_pcap_header(f, p) ==
    LET magic == Read(f, p, 4)
    IN  IF magic # PCAP_MAGIC THEN [type |-> "none", pos |-> p + Len(magic)]
        ELSE
        LET version == Read(f, p + 4, 4)
            zone == Read(f, p + 4 + Len(version), 8)
            snap == Read(f, p + 4 + Len(version) + Len(zone), 8)
        IN  IF Len(version) # 4
            THEN [type |-> "raise", pos |-> p + 4 + Len(version)]
            ELSE IF Len(zone) # 8
            THEN [type |-> "raise", pos |-> p + 8 + Len(zone)]
            ELSE IF Len(snap) # 8
            THEN [type |-> "raise", pos |-> p + 16 + Len(snap)]
            ELSE [type |-> "header", pos |-> p + 24]

\* read_packet_header with the file position at p
read_packet_header(f, p) ==
    LET data == Read(f, p, 16)
    IN  IF Len(data) < 16 THEN [type |-> "none", pos |-> p + Len(data)]
        ELSE [type |-> "pkt_header",
              ts_sec |-> u32le(Slice(data, 0, 4)),
              ts_usec |-> u32le(Slice(data, 4, 8)),
              incl_len |-> AsLen(u32le(Slice(data, 8, 12))),
              orig_len |-> u32le(Slice(data, 12, 16)),
              pos |-> p + 16]

\* analyze_pcap up to the loop
ReadPcapHeader ==
    /\ fmt = "pcap" /\ pc = "start"
    /\ LET header == read_pcap_header(file, pos)
       IN  /\ pos' = header.pos
           /\ pc' = IF header.type = "none" THEN "invalid"
                    ELSE IF header.type = "raise" THEN "raised"
                    ELSE "loop"
    /\ UNCHANGED <<fmt, recs, file, packets, packet_num, warnings, lastblk>>

\* one iteration of the while loop of analyze_pcap
ReadPacket ==
    /\ fmt = "pcap" /\ pc = "loop"
    /\ LET pkt_header == read_packet_header(file, pos)
       IN  IF pkt_header.type = "none"
           THEN /\ pos' = pkt_header.pos
                /\ pc' = "done"
                /\ UNCHANGED <<packets, packet_num>>
           ELSE
           LET packet_data == Read(file, pkt_header.pos, pkt_header.incl_len)
               e == legacy_frame(packet_data)
           IN  /\ pos' = pkt_header.pos + Len(packet_data)
               /\ IF Len(packet_data) < pkt_header.incl_len
                  THEN /\ pc' = "done"
                       /\ UNCHANGED <<packets, packet_num>>
                  ELSE IF e.type = "raise"
                  THEN /\ pc' = "raised"
                       /\ UNCHANGED <<packets, packet_num>>
                  ELSE /\ pc' = "loop"
                       /\ packet_num' = packet_num + 1
                       /\ packets' =
                            IF e.type = "none" THEN packets
                            ELSE Append(packets,
                                   [num |-> packet_num,
                                    \* ts_sec + ts_usec / 1000000
                                    ts |-> [sec |-> pkt_header.ts_sec,
                                            usec |-> pkt_header.ts_usec],
                                    src_port |-> e.src_port,
                                    dst_port |-> e.dst_port,
                                    type |-> e.type,
                                    data |-> e.payload])
    /\ UNCHANGED <<fmt, recs, file, warnings, lastblk>>

-----------------------------------------------------------------------------
(* Capture files handed to the readers: a leading record and up to MaxRecs   *)
(* records drawn from a catalog, laid out back to back, the file cut         *)
(* somewhere in its last record (a cut further back gives the same bytes as  *)
(* a shorter record list)                                                    *)

\* most records after the leading one
MaxRecs == 2

\* a 46-byte Ethernet/IPv4/UDP frame holding a 4-byte Discovery payload
\* whose magic the binary path recognises
FrameDiscLE(src_ip) ==
    Cut(EthFrame(69, 17, src_ip, 12, MagicLE(BCUDP_MAGIC_DISCOVERY)), 46)

\* the same with the magic in wire order, which the legacy path recognises
FrameDiscWire(src_ip) ==
    Cut(EthFrame(69, 17, src_ip, 12, MagicWire(BCUDP_MAGIC_DISCOVERY)), 46)

\* a block of the block-structured format, by its parts: hasHdr says the
\* body starts with the 16-byte packet-block header (interface id, timestamp
\* high, timestamp low, captured length) followed by `frame`; otherwise the
\* body is `raw`.  match says the trailing length repeats the leading one
Blk(type, hasHdr, ts_hi, ts_lo, caplen, fr, raw, match) ==
    [type |-> type, hasHdr |-> hasHdr, ts_hi |-> ts_hi, ts_lo |-> ts_lo,
     caplen |-> caplen, frame |-> fr, raw |-> raw, match |-> match]

PcapngNames == {"epb", "epb_mismatch", "epb_short", "epb_overlong", "epb_clip", "idb"}
PcapngHeads == {"shb", "shb_bad"}

PcapngCatalog(name) ==
    CASE name = "shb" ->
           Blk(SHB_TYPE, FALSE, Word(0, 0), Word(0, 0), Word(0, 0), <<>>,
               <<77, 60, 43, 26>>, TRUE)
      [] name = "shb_bad" ->
           Blk(Word(2573, 3339), FALSE, Word(0, 0), Word(0, 0), Word(0, 0), <<>>,
               <<77, 60, 43, 26>>, TRUE)
      [] name = "epb" ->
           Blk(EPB_TYPE, TRUE, Word(0, 1), Word(40000, 5), Word(0, 46),
               FrameDiscLE(<<192, 168, 1, 10>>), <<>>, TRUE)
      [] name = "epb_mismatch" ->
           Blk(EPB_TYPE, TRUE, Word(0, 2), Word(0, 7), Word(0, 46),
               FrameDiscLE(<<10, 0, 0, 9>>), <<>>, FALSE)
      [] name = "epb_short" ->
           Blk(EPB_TYPE, FALSE, Word(0, 0), Word(0, 0), Word(0, 0), <<>>,
               <<0, 0, 0, 0, 1, 0, 0, 0>>, TRUE)
      [] name = "epb_overlong" ->
           Blk(EPB_TYPE, TRUE, Word(3, 0), Word(0, 9), Word(1, 0),
               FrameDiscLE(<<192, 168, 1, 11>>), <<>>, TRUE)
      [] name = "epb_clip" ->
           Blk(EPB_TYPE, TRUE, Word(0, 4), Word(0, 1), Word(0, 20),
               FrameDiscLE(<<192, 168, 1, 12>>), <<>>, TRUE)
      [] name = "idb" ->
           Blk(Word(0, 1), TRUE, Word(0, 5), Word(0, 2), Word(0, 46),
               FrameDiscLE(<<192, 168, 1, 13>>), <<>>, TRUE)

BlkBody(c) ==
    IF c.hasHdr
    THEN enc_u32le(Word(0, 0)) \o enc_u32le(c.ts_hi) \o enc_u32le(c.ts_lo)
         \o enc_u32le(c.caplen) \o c.frame
    ELSE c.raw

\* type, total length (8 more than the body), body, trailing length
RenderBlk(c) ==
    enc_u32le(c.type) \o enc_u32le(Word(0, Len(BlkBody(c)) + 8)) \o BlkBody(c)
    \o enc_u32le(Word(0, Len(BlkBody(c)) + (IF c.match THEN 8 ELSE 9)))

\* a record of the legacy format: 16-byte header (seconds, microseconds,
\* captured length, original length) and the frame
LegacyNames == {"udp_disc", "tcp", "runt", "ipv6"}
LegacyHeads == {"pcap", "pcap_bad"}

LegacyFrameOf(name) ==
    CASE name = "udp_disc" -> FrameDiscWire(<<192, 168, 1, 10>>)
      [] name = "tcp" -> Cut(EthFrame(69, 6, <<192, 168, 1, 10>>, 12, <<1, 2, 3, 4>>), 46)
      [] name = "runt" -> Zeros(10)
      [] name = "ipv6" -> Cut(EthFrame(96, 17, <<192, 168, 1, 10>>, 12, <<1, 2, 3, 4>>), 46)

RenderLegacy(name) ==
    IF name = "pcap" THEN PCAP_MAGIC \o <<2, 0, 4, 0>> \o Zeros(8) \o <<255, 255, 0, 0, 1, 0, 0, 0>>
    ELSE IF name = "pcap_bad" THEN <<10, 13, 13, 10>> \o Zeros(20)
    ELSE enc_u32le(Word(0, 3)) \o enc_u32le(Word(7, 41248))
         \o enc_u32le(Word(0, Len(LegacyFrameOf(name))))
         \o enc_u32le(Word(0, Len(LegacyFrameOf(name))))
         \o LegacyFrameOf(name)

Render(f, name) == IF f = "pcapng" THEN RenderBlk(PcapngCatalog(name)) ELSE RenderLegacy(name)

RECURSIVE RenderAll(_, _)
RenderAll(f, rs) ==
    IF rs = <<>> THEN <<>> ELSE Render(f, Head(rs)) \o RenderAll(f, Tail(rs))

Front(q) == SubSeq(q, 1, Len(q) - 1)

RecLists(f) ==
    LET names == IF f = "pcapng" THEN PcapngNames ELSE LegacyNames
        heads == IF f = "pcapng" THEN PcapngHeads ELSE LegacyHeads
    IN  { <<h>> \o t : h \in heads, t \in UNION { [1..n -> names] : n \in 0..MaxRecs } }

\* the lengths a file laid out from rs is cut to
CutPoints(f, rs) ==
    (IF Len(rs) = 1 THEN {0} ELSE {})
    \cup ((Len(RenderAll(f, Front(rs))) + 1)..Len(RenderAll(f, rs)))

-----------------------------------------------------------------------------
(* Specifications *)

\* the BCUDP decoders applied to payloads
NextDecode ==
    \/ CallParseBcudpPacket /\ UNCHANGED <<frameVars, readerVars, mainVars, compareVars>>
    \/ CallJsonParseBcudpPacket /\ UNCHANGED <<frameVars, readerVars, mainVars, compareVars>>
    \/ CallStreamClassify /\ UNCHANGED <<frameVars, readerVars, mainVars, compareVars>>
    \/ CallFindBcudpPackets /\ UNCHANGED <<frameVars, readerVars, mainVars, compareVars>>
    \/ Grow /\ UNCHANGED <<frameVars, readerVars, mainVars, compareVars>>
    \/ Shrink /\ UNCHANGED <<frameVars, readerVars, mainVars, compareVars>>
    \/ Refill /\ UNCHANGED <<frameVars, readerVars, mainVars, compareVars>>

InitDecode ==
    /\ hdr \in Headers
    /\ \E n \in 0..MaxPayloadLen : payload = Cut(Layout(hdr), n)
    /\ out = NoOut
    /\ variants = {}
    /\ found = Unset
    /\ frame = <<>> /\ fout = NoFout
    /\ fmt = "idle" /\ recs = <<>> /\ file = <<>> /\ pos = 0 /\ pc = "idle"
    /\ packets = <<>> /\ packet_num = 0 /\ warnings = 0 /\ lastblk = NoLast
    /\ inputs = <<>> /\ finished = <<>> /\ pipes = <<>>
    /\ sa = <<>> /\ sb = <<>> /\ report = Unset

SpecDecode == InitDecode /\ [][NextDecode]_vars

\* the frame decoders applied to frames
NextFrame ==
    \/ CallExtractUdpPacket /\ UNCHANGED <<decodeVars, readerVars, mainVars, compareVars>>
    \/ CallPcapngFrame /\ UNCHANGED <<decodeVars, readerVars, mainVars, compareVars>>
    \/ CallLegacyFrame /\ UNCHANGED <<decodeVars, readerVars, mainVars, compareVars>>

InitFrame ==
    /\ \E f \in Frames : \E n \in 0..MaxFrameLen : frame = Cut(f, n)
    /\ fout = NoFout
    /\ hdr = NoHeader /\ payload = <<>> /\ out = NoOut /\ variants = {}
    /\ found = Unset
    /\ fmt = "idle" /\ recs = <<>> /\ file = <<>> /\ pos = 0 /\ pc = "idle"
    /\ packets = <<>> /\ packet_num = 0 /\ warnings = 0 /\ lastblk = NoLast
    /\ inputs = <<>> /\ finished = <<>> /\ pipes = <<>>
    /\ sa = <<>> /\ sb = <<>> /\ report = Unset

SpecFrame == InitFrame /\ [][NextFrame]_vars

\* the two container readers run over capture files
Init ==
    /\ fmt \in {"pcapng", "pcap"}
    /\ recs \in RecLists(fmt)
    /\ \E c \in CutPoints(fmt, recs) : file = Cut(RenderAll(fmt, recs), c)
    /\ pos = 0 /\ pc = "start"
    /\ packets = <<>> /\ packet_num = 0 /\ warnings = 0 /\ lastblk = NoLast
    /\ inputs = <<>> /\ finished = <<>> /\ pipes = <<>>
    /\ sa = <<>> /\ sb = <<>> /\ report = Unset
    /\ hdr = NoHeader /\ payload = <<>> /\ out = NoOut /\ variants = {}
    /\ found = Unset
    /\ frame = <<>> /\ fout = NoFout

Next ==
    \/ ReadSectionHeader /\ UNCHANGED <<decodeVars, frameVars, mainVars, compareVars>>
    \/ ReadBlock /\ UNCHANGED <<decodeVars, frameVars, mainVars, compareVars>>
    \/ ReadPcapHeader /\ UNCHANGED <<decodeVars, frameVars, mainVars, compareVars>>
    \/ ReadPacket /\ UNCHANGED <<decodeVars, frameVars, mainVars, compareVars>>

Spec == Init /\ [][Next]_vars

-----------------------------------------------------------------------------
(* The block-structured reader over files in the layout of the format: a    *)
(* block occupies exactly its total length, the trailing length being its   *)
(* last 4 bytes                                                              *)

StdNames == {"epb", "idb", "epb_short", "tiny"}
StdHeads == {"shb", "shb_bad", "tiny"}

\* type, total length (12 more than the body), body, total length again;
\* "tiny" is 8 bytes that declare a total length of 8
RenderStd(name) ==
    IF name = "tiny" THEN enc_u32le(EPB_TYPE) \o enc_u32le(Word(0, 8))
    ELSE enc_u32le(PcapngCatalog(name).type)
         \o enc_u32le(Word(0, Len(BlkBody(PcapngCatalog(name))) + 12))
         \o BlkBody(PcapngCatalog(name))
         \o enc_u32le(Word(0, Len(BlkBody(PcapngCatalog(name))) + 12))

RECURSIVE RenderStdAll(_)
RenderStdAll(rs) ==
    IF rs = <<>> THEN <<>> ELSE RenderStd(Head(rs)) \o RenderStdAll(Tail(rs))

StdRecLists ==
    { <<h>> \o t : h \in StdHeads, t \in UNION { [1..n -> StdNames] : n \in 0..MaxRecs } }

InitBlocks ==
    /\ fmt = "pcapng"
    /\ recs \in StdRecLists
    /\ file = RenderStdAll(recs)
    /\ pos = 0 /\ pc = "start"
    /\ packets = <<>> /\ packet_num = 0 /\ warnings = 0 /\ lastblk = NoLast
    /\ inputs = <<>> /\ finished = <<>> /\ pipes = <<>>
    /\ sa = <<>> /\ sb = <<>> /\ report = Unset
    /\ hdr = NoHeader /\ payload = <<>> /\ out = NoOut /\ variants = {}
    /\ found = Unset
    /\ frame = <<>> /\ fout = NoFout

NextBlocks ==
    \/ ReadSectionHeader /\ UNCHANGED <<decodeVars, frameVars, mainVars, compareVars>>
    \/ ReadBlock /\ UNCHANGED <<decodeVars, frameVars, mainVars, compareVars>>

SpecBlocks == InitBlocks /\ [][NextBlocks]_vars

-----------------------------------------------------------------------------
(* The scripts' main: analyze the first file, then the second               *)
(* (compare_pcaps.main; the __main__ block of analyze_pcap.py)              *)

\* most records after the leading one in a file handed to main
MaxMainRecs == 1

MainRecLists(f) ==
    LET names == IF f = "pcapng" THEN PcapngNames ELSE LegacyNames
        heads == IF f = "pcapng" THEN PcapngHeads ELSE LegacyHeads
    IN  { <<h>> \o t : h \in heads, t \in UNION { [1..n -> names] : n \in 0..MaxMainRecs } }

\* the while loop of analyze_pcapng from file position p on, as one function
RECURSIVE pcapng_loop(_, _, _, _)
pcapng_loop(f, p, pk, num) ==
    LET block == read_pcapng_block(f, p)
    IN  IF ~block.ok THEN [end |-> "done", packets |-> pk]
        ELSE pcapng_loop(f, block.pos, pk \o pcapng_entries(block, num),
                         num + Len(pcapng_entries(block, num)))

\* analyze_pcapng(filename) on a file with the bytes f: how it ends and what
\* it returns
analyze_pcapng(f) ==
    LET first_block == read_pcapng_block(f, 0)
    IN  IF ~first_block.ok \/ first_block.block_type # SHB_TYPE
        THEN [end |-> "invalid", packets |-> <<>>]
        ELSE pcapng_loop(f, first_block.pos, <<>>, 0)

\* the while loop of analyze_pcap from file position p on
RECURSIVE pcap_loop(_, _, _, _)
pcap_loop(f, p, pk, num) ==
    LET pkt_header == read_packet_header(f, p)
        packet_data == Read(f, pkt_header.pos, pkt_header.incl_len)
        e == legacy_frame(packet_data)
    IN  IF pkt_header.type = "none" THEN [end |-> "done", packets |-> pk]
        ELSE IF Len(packet_data) < pkt_header.incl_len
        THEN [end |-> "done", packets |-> pk]
        ELSE IF e.type = "raise" THEN [end |-> "raised", packets |-> <<>>]
        ELSE pcap_loop(f, pkt_header.pos + Len(packet_data),
                       IF e.type = "none" THEN pk
                       ELSE Append(pk, [num |-> num,
                                        ts |-> [sec |-> pkt_header.ts_sec,
                                                usec |-> pkt_header.ts_usec],
                                        src_port |-> e.src_port,
                                        dst_port |-> e.dst_port,
                                        type |-> e.type,
                                        data |-> e.payload]),
                       num + 1)

\* analyze_pcap(filename) on a file with the bytes f
analyze_pcap(f) ==
    LET header == read_pcap_header(f, 0)
    IN  IF header.type = "none" THEN [end |-> "invalid", packets |-> <<>>]
        ELSE IF header.type = "raise" THEN [end |-> "raised", packets |-> <<>>]
        ELSE pcap_loop(f, header.pos, <<>>, 0)

\* an analyze call returns to main: its result is kept; after the first
\* call the second file is opened, after the second main goes on to the
\* summaries.  A call that raised does not return.
ReturnToMain ==
    /\ pc \in {"done", "invalid"}
    /\ Len(finished) < 2
    /\ finished' = Append(finished,
                          [end |-> pc,
                           packets |-> IF pc = "invalid" THEN <<>> ELSE packets])
    /\ IF Len(finished) = 0
       THEN /\ recs' = inputs[2]
            /\ file' = RenderAll(fmt, inputs[2])
            /\ pc' = "start"
       ELSE /\ pc' = "end"
            /\ UNCHANGED <<recs, file>>
    /\ pos' = 0 /\ packets' = <<>> /\ packet_num' = 0
    /\ warnings' = 0 /\ lastblk' = NoLast
    /\ UNCHANGED <<fmt, inputs, pipes>>

NextMain ==
    \/ ReadSectionHeader /\ UNCHANGED <<decodeVars, frameVars, mainVars, compareVars>>
    \/ ReadBlock /\ UNCHANGED <<decodeVars, frameVars, mainVars, compareVars>>
    \/ ReadPcapHeader /\ UNCHANGED <<decodeVars, frameVars, mainVars, compareVars>>
    \/ ReadPacket /\ UNCHANGED <<decodeVars, frameVars, mainVars, compareVars>>
    \/ ReturnToMain /\ UNCHANGED <<decodeVars, frameVars, compareVars>>

InitMain ==
    /\ fmt \in {"pcapng", "pcap"}
    /\ inputs \in MainRecLists(fmt) \X MainRecLists(fmt)
    /\ finished = <<>> /\ pipes = <<>>
    /\ sa = <<>> /\ sb = <<>> /\ report = Unset
    /\ recs = inputs[1]
    /\ file = RenderAll(fmt, inputs[1])
    /\ pos = 0 /\ pc = "start"
    /\ packets = <<>> /\ packet_num = 0 /\ warnings = 0 /\ lastblk = NoLast
    /\ hdr = NoHeader /\ payload = <<>> /\ out = NoOut /\ variants = {}
    /\ found = Unset
    /\ frame = <<>> /\ fout = NoFout

SpecMain == InitMain /\ [][NextMain]_vars

-----------------------------------------------------------------------------
(* Sessions handed to the analysis and comparison functions: the datagrams   *)
(* of a capture, each with a source address string, a capture time in        *)
(* milliseconds and a BCUDP payload laid out from a type, a packet id and a  *)
(* body                                                                      *)

\* most datagrams in a session drawn from the alphabet
MaxSessionLen == 2

\* address strings as the capture tool exports them ('ip.src'); the last is
\* the default for a record without an ip layer
CameraIp == <<"1", "9", "2", ".", "1", "6", "8", ".", "1", ".", "1", "0">>
ClientIp == <<"1", "0", ".", "0", ".", "0", ".", "9">>
MissingIp == <<>>

\* the bytes after the 20-byte Data header, by body: "base" is 32 bytes,
\* "d24" / "d40" / "d50" differ from it at payload offset 24 / 40 / 50 only,
\* "short" is its first 10 bytes, "cut" is the same 10 bytes of a datagram
\* whose header declares all 32 (a truncated "base"), "min" is empty
BodyTail(body) ==
    LET base == [k \in 1..32 |-> k]
    IN  CASE body = "base" -> base
          [] body = "d24" -> [base EXCEPT ![5] = 200]
          [] body = "d40" -> [base EXCEPT ![21] = 200]
          [] body = "d50" -> [base EXCEPT ![31] = 200]
          [] body \in {"short", "cut"} -> SubSeq(base, 1, 10)
          [] body = "min" -> <<>>

\* the payload length the Data header declares
DeclaredLen(body) == IF body = "cut" THEN 32 ELSE Len(BodyTail(body))

Dg(type, src_ip, id, body, time) ==
    [type |-> type, src_ip |-> src_ip, id |-> id, body |-> body, time |-> time]

\* the UDP payload of a datagram, the magic in wire order or least
\* significant byte first
DatagramBytes(d, order) ==
    LET m == IF d.type = "data" THEN BCUDP_MAGIC_DATA
             ELSE IF d.type = "ack" THEN BCUDP_MAGIC_ACK
             ELSE BCUDP_MAGIC_DISCOVERY
        magic == IF order = "le" THEN MagicLE(m) ELSE MagicWire(m)
    IN  IF d.type = "data"
        THEN magic \o enc_i32le(77) \o <<170, 187, 204, 221>>
             \o enc_nat_le(d.id) \o enc_nat_le(DeclaredLen(d.body))
             \o BodyTail(d.body)
        ELSE IF d.type = "ack"
        THEN magic \o enc_i32le(77) \o <<170, 187, 204, 221>>
             \o enc_nat_le(9) \o enc_nat_le(d.id) \o Zeros(8)
        ELSE magic \o <<60, 67, 50, 68>>

\* the alphabet of the enumerated sessions, without times
Kinds ==
    { Dg("data", CameraIp, 2, "base", 0),
      Dg("data", CameraIp, 4, "short", 0),
      Dg("data", ClientIp, 2, "d50", 0),
      Dg("ack", ClientIp, 1, "min", 0),
      Dg("ack", CameraIp, 7, "min", 0),
      Dg("ack", MissingIp, 1, "min", 0),
      Dg("discovery", CameraIp, 0, "min", 0),
      Dg("discovery", ClientIp, 0, "min", 0) }

\* milliseconds between consecutive datagrams of an enumerated session
Steps == {0, 40}

Timed(q, step) == [i \in 1..Len(q) |-> [q[i] EXCEPT !.time = (i - 1) * step]]

GenericSessions ==
    { Timed(q, step) :
        q \in UNION { [1..n -> Kinds] : n \in 0..MaxSessionLen }, step \in Steps }

\* n camera Data datagrams with the ids first, first + stride, ... spaced
\* step milliseconds
Run(n, first, stride, step) ==
    [i \in 1..n |-> Dg("data", CameraIp, first + (i - 1) * stride, "min", (i - 1) * step)]

\* camera Data datagrams with the given ids, 10 ms apart
WithIds(ids) ==
    [i \in 1..Len(ids) |-> Dg("data", CameraIp, ids[i], "min", (i - 1) * 10)]

Scenarios ==
    { <<Dg("data", CameraIp, 2, b, 0)>> : b \in {"base", "d24", "d40", "d50", "short", "cut"} }
    \cup { <<k>> : k \in Kinds }
    \cup { <<>>,
           WithIds(<<1, 2, 4, 5>>),
           WithIds(<<5, 9, 1, 2, 2, 4>>),
           \* twelve ids with eleven gaps
           Run(12, 1, 2, 10),
           \* ten Data datagrams spanning 2.0 s
           [i \in 1..10 |-> Dg("data", CameraIp, i, "min",
                                IF i = 10 THEN 2000 ELSE (i - 1) * 200)],
           \* capture times running backwards
           <<Dg("data", CameraIp, 1, "min", 100), Dg("data", CameraIp, 2, "min", 0)>>,
           \* acknowledgements only
           <<Dg("ack", ClientIp, 1, "min", 0), Dg("ack", CameraIp, 2, "min", 50),
             Dg("ack", ClientIp, 3, "min", 50)>>,
           \* the camera's Discovery reply after the client's request
           <<Dg("discovery", ClientIp, 0, "min", 0), Dg("discovery", CameraIp, 0, "min", 5),
             Dg("data", CameraIp, 1, "base", 9)>> }

\* a discovery exchange followed by n Data datagrams
Handshake(n) ==
    << Dg("discovery", ClientIp, 0, "min", 0), Dg("discovery", CameraIp, 0, "min", 0) >>
    \o Run(n, 1, 1, 40)

\* ids 100..149 at 25 datagrams a second in one capture and at 10 in the
\* other, or in none; a capture with more than 50 packets after discovery
LongPairs ==
    { <<Run(50, 100, 1, 40), Run(50, 100, 1, 100)>>,
      <<Run(50, 100, 1, 100), Run(50, 100, 1, 40)>>,
      <<Run(50, 100, 1, 40), <<>>>>,
      <<Handshake(52), Run(50, 100, 1, 40)>> }

\* the second captures every generic first capture is paired with
Probes ==
    { <<>>,
      << Dg("data", CameraIp, 2, "base", 0) >>,
      << Dg("ack", ClientIp, 1, "min", 0) >>,
      << Dg("discovery", CameraIp, 0, "min", 0) >>,
      WithIds(<<1, 2, 4, 5>>) }

SessionPairs ==
    (GenericSessions \X Probes) \cup (Scenarios \X Scenarios) \cup LongPairs

-----------------------------------------------------------------------------
(* Numbers: a quotient a / b of two integers is kept as the fraction it is  *)

Zero == [type |-> "number", num |-> 0, den |-> 1]

\* a / b: ZeroDivisionError when b is 0
py_div(a, b) ==
    IF b = 0 THEN [type |-> "raise"]
    ELSE IF b < 0 THEN [type |-> "number", num |-> 0 - a, den |-> 0 - b]
    ELSE [type |-> "number", num |-> a, den |-> b]

\* x * k for a number x
py_scale(x, k) == IF x.type = "raise" THEN x ELSE [x EXCEPT !.num = @ * k]

\* x < y for two numbers
py_less(x, y) == x.num * y.den < y.num * x.den

\* the value of a 32-bit word as an integer (the ids of the model are small)
IntOf(w) == w.hi * 65536 + w.lo

-----------------------------------------------------------------------------
(* compare_stream_flow.py: extraction, flow analysis, comparison *)

\* s contains sub ('sub' in s)
str_contains(s, sub) ==
    \E i \in 0..(Len(s) - Len(sub)) : Slice(s, i, i + Len(sub)) = sub

\* '192.168' in p['src_ip']
is_local(src_ip) == str_contains(src_ip, <<"1", "9", "2", ".", "1", "6", "8">>)

\* the entry extract_stream_packets appends for the n-th record, as 0 or 1
\* entries
stream_entry(d, n) ==
    LET r == stream_classify(to_hex(DatagramBytes(d, "wire"), ":"))
    IN  IF r.type \notin {"data", "ack"} THEN <<>>
        ELSE << [frame_num |-> n, time |-> d.time, src_ip |-> d.src_ip,
                 type |-> r.type, connection_id |-> r.connection_id,
                 packet_id |-> IntOf(r.packet_id)] >>

RECURSIVE extract_stream_packets_from(_, _)
extract_stream_packets_from(session, n) ==
    IF n > Len(session) THEN <<>>
    ELSE stream_entry(session[n], n) \o extract_stream_packets_from(session, n + 1)

extract_stream_packets(session) == extract_stream_packets_from(session, 1)

camera_of(pkts) == SelectSeq(pkts, LAMBDA q : is_local(q.src_ip))

client_of_m(pkts) ==
    SelectSeq(pkts, LAMBDA q : ~is_local(q.src_ip) /\ q.src_ip # <<>>)
client_of(pkts) == SelectSeq(pkts, LAMBDA q : ~is_local(q.src_ip))

pid_order_m(pids) == pids
\* sorted(pids)
pid_order(pids) == SortSeq(pids, LAMBDA x, y : x < y)

\* the gaps list: (pids[i], pids[i+1], gap) for each adjacent pair of the
\* sorted ids more than 1 apart
find_gaps(pkts) ==
    LET pids == pid_order([i \in 1..Len(pkts) |-> pkts[i].packet_id])
        at == SelectSeq([i \in 1..(Len(pids) - 1) |-> i],
                        LAMBDA i : pids[i + 1] - pids[i] > 1)
    IN  [k \in 1..Len(at) |-> <<pids[at[k]], pids[at[k] + 1], pids[at[k] + 1] - pids[at[k]]>>]

\* the 'Missing: a to b' lines: the ranges of gaps[:10]
shown_gaps(gaps) ==
    [k \in 1..Min(10, Len(gaps)) |-> <<gaps[k][1] + 1, gaps[k][2] - 1>>]

rate_of_m(pkts) ==
    LET duration == pkts[Len(pkts)].time - pkts[1].time
    IN  IF duration >= 0 THEN py_div(Len(pkts) * 1000, duration) ELSE Zero
\* len(pkts) / duration if duration > 0 else 0, the times being in
\* milliseconds and the rate in packets a second
rate_of(pkts) ==
    LET duration == pkts[Len(pkts)].time - pkts[1].time
    IN  IF duration > 0 THEN py_div(Len(pkts) * 1000, duration) ELSE Zero

NoRate == [type |-> "absent"]

\* analyze_stream_flow(packets, name): what it prints
analyze_stream_flow(pkts) ==
    LET data_packets == SelectSeq(pkts, LAMBDA q : q.type = "data")
        ack_packets == SelectSeq(pkts, LAMBDA q : q.type = "ack")
        camera_data == camera_of(data_packets)
        client_data == client_of(data_packets)
        camera_ack == camera_of(ack_packets)
        client_ack == client_of(ack_packets)
        gaps == IF camera_data # <<>> THEN find_gaps(camera_data) ELSE <<>>
    IN  IF data_packets = <<>>
        THEN [type |-> "report", op |-> "analyze_stream_flow", total |-> Len(pkts),
              data_count |-> 0, ack_count |-> Len(ack_packets),
              breakdown |-> FALSE,
              camera_data |-> <<>>, client_data |-> <<>>,
              camera_ack |-> <<>>, client_ack |-> <<>>,
              gaps |-> <<>>, shown |-> <<>>, rate |-> NoRate, ack_rate |-> NoRate]
        ELSE [type |-> "report", op |-> "analyze_stream_flow", total |-> Len(pkts),
              data_count |-> Len(data_packets), ack_count |-> Len(ack_packets),
              breakdown |-> TRUE,
              camera_data |-> camera_data, client_data |-> client_data,
              camera_ack |-> camera_ack, client_ack |-> client_ack,
              gaps |-> gaps, shown |-> shown_gaps(gaps),
              rate |-> IF Len(camera_data) > 1 THEN rate_of(camera_data) ELSE NoRate,
              ack_rate |-> IF Len(client_ack) > 1 THEN rate_of(client_ack) ELSE NoRate]

\* main: analyze_stream_flow(nl_packets, "NEOLINK")
CallAnalyzeStreamFlow ==
    /\ report = Unset
    /\ report' = analyze_stream_flow(extract_stream_packets(sa))
    /\ UNCHANGED <<sa, sb>>

-----------------------------------------------------------------------------
(* compare_pcaps.py: comparison of the two decoded-packet lists *)

\* the entry analyze_pcapng appends for a datagram of the capture, as 0 or 1
\* entries (the capture holds the magic as the binary path reads it)
flow_entry(d) ==
    LET udp_payload == DatagramBytes(d, "le")
        bcudp_pkt == parse_bcudp_packet(udp_payload)
    IN  IF bcudp_pkt.type \in {"none", "raise"} THEN <<>>
        ELSE << [src_ip |-> d.src_ip, bcudp |-> bcudp_pkt,
                 raw_payload |-> raw_payload(udp_payload)] >>

RECURSIVE flow_packets_from(_, _)
flow_packets_from(session, n) ==
    IF n > Len(session) THEN <<>>
    ELSE flow_entry(session[n]) \o flow_packets_from(session, n + 1)

\* the packet list analyze_pcapng returns for a capture of the session
flow_packets(session) == flow_packets_from(session, 1)

hex_differs_m(x, y) == x # Slice(y, 0, Len(x))
\* neolink_first_data['raw_payload'] != scrypted_first_data['raw_payload']
hex_differs(x, y) == x # y

\* compare_flows(neolink_packets, scrypted_packets): what it prints
compare_flows(neolink_packets, scrypted_packets) ==
    LET nl_data == SelectSeq(neolink_packets, LAMBDA q : q.bcudp.type = "data")
        sc_data == SelectSeq(scrypted_packets, LAMBDA q : q.bcudp.type = "data")
    IN  [type |-> "report", op |-> "compare_flows",
         verdict |-> IF nl_data = <<>> \/ sc_data = <<>> THEN "absent"
                     ELSE IF hex_differs(nl_data[1].raw_payload, sc_data[1].raw_payload)
                     THEN "different" ELSE "same",
         neolink_data_count |-> Len(nl_data),
         neolink_ack_count |->
            Len(SelectSeq(neolink_packets, LAMBDA q : q.bcudp.type = "ack")),
         scrypted_data_count |-> Len(sc_data),
         scrypted_ack_count |->
            Len(SelectSeq(scrypted_packets, LAMBDA q : q.bcudp.type = "ack"))]

\* main: compare_flows(neolink_packets, scrypted_packets)
CallCompareFlows ==
    /\ report = Unset
    /\ report' = compare_flows(flow_packets(sa), flow_packets(sb))
    /\ UNCHANGED <<sa, sb>>

-----------------------------------------------------------------------------
(* simple_compare.py: comparison of the first Data packets found *)

\* the bytes of a capture file holding the session: each payload after 8
\* bytes that are no part of any magic
RECURSIVE SessionFile(_)
SessionFile(session) ==
    IF session = <<>> THEN <<>>
    ELSE <<238, 1, 2, 3, 4, 5, 6, 239>> \o DatagramBytes(Head(session), "wire")
         \o SessionFile(Tail(session))

\* the loop over range(0, min(len, len), 2): the byte index of the first
\* pair of hex digits that differ, -1 when the loop ends without printing
first_difference(nl_hex, sc_hex) ==
    LET n == Min(Len(nl_hex), Len(sc_hex))
        diff == { i \in 0..(n - 1) :
                    i % 2 = 0 /\ Slice(nl_hex, i, i + 2) # Slice(sc_hex, i, i + 2) }
    IN  IF diff = {} THEN -1
        ELSE (CHOOSE i \in diff : \A j \in diff : i <= j) \div 2

\* main from the comparison on: what it prints about the first Data packets
simple_compare_main(neolink_packets, scrypted_packets) ==
    LET data_packets == SelectSeq(neolink_packets, LAMBDA q : q.type = "data")
        scrypted_data_packets == SelectSeq(scrypted_packets, LAMBDA q : q.type = "data")
    IN  IF data_packets = <<>> \/ scrypted_data_packets = <<>>
        THEN [type |-> "report", op |-> "simple_compare",
              verdict |-> "absent", offset |-> -1]
        ELSE LET nl_first == data_packets[1]
                 sc_first == scrypted_data_packets[1]
             IN  IF nl_first.hex = sc_first.hex
                 THEN [type |-> "report", op |-> "simple_compare",
                       verdict |-> "identical", offset |-> -1]
                 ELSE [type |-> "report", op |-> "simple_compare",
                       verdict |-> "different",
                       offset |-> first_difference(nl_first.hex, sc_first.hex)]

\* main of simple_compare.py on the two capture files
CallSimpleCompare ==
    /\ report = Unset
    /\ report' = simple_compare_main(find_bcudp_packets(SessionFile(sa)),
                                     find_bcudp_packets(SessionFile(sb)))
    /\ UNCHANGED <<sa, sb>>

-----------------------------------------------------------------------------
(* compare_stream_flow.py: comparison of the two sessions *)

ratio_m(sc_list, nl_list) == py_scale(py_div(Len(sc_list), Len(nl_list)), 100)
\* len(sc) / len(nl) * 100 if nl else 0
ratio(sc_list, nl_list) ==
    IF nl_list # <<>> THEN py_scale(py_div(Len(sc_list), Len(nl_list)), 100)
    ELSE Zero

\* nl_rate * 0.5
py_half(x) == [x EXCEPT !.den = @ * 2]

\* compare_streams(nl_packets, sc_packets): what it prints; the rates and
\* the warning are computed only when both sessions have camera Data packets
compare_streams(nl_packets, sc_packets) ==
    LET nl_camera_data == camera_of(SelectSeq(nl_packets, LAMBDA q : q.type = "data"))
        sc_camera_data == camera_of(SelectSeq(sc_packets, LAMBDA q : q.type = "data"))
        nl_client_ack == client_of(SelectSeq(nl_packets, LAMBDA q : q.type = "ack"))
        sc_client_ack == client_of(SelectSeq(sc_packets, LAMBDA q : q.type = "ack"))
        rates == nl_camera_data # <<>> /\ sc_camera_data # <<>>
        nl_rate == IF rates THEN rate_of(nl_camera_data) ELSE NoRate
        sc_rate == IF rates THEN rate_of(sc_camera_data) ELSE NoRate
    IN  [type |-> "report", op |-> "compare_streams",
         nl_camera_data |-> Len(nl_camera_data),
         sc_camera_data |-> Len(sc_camera_data),
         data_ratio |-> ratio(sc_camera_data, nl_camera_data),
         nl_client_ack |-> Len(nl_client_ack),
         sc_client_ack |-> Len(sc_client_ack),
         ack_ratio |-> ratio(sc_client_ack, nl_client_ack),
         rates |-> rates,
         nl_rate |-> nl_rate,
         sc_rate |-> sc_rate,
         warning |-> IF rates /\ nl_rate.type = "number" /\ sc_rate.type = "number"
                     THEN py_less(sc_rate, py_half(nl_rate)) ELSE FALSE]

\* main: compare_streams(nl_packets, sc_packets)
CallCompareStreams ==
    /\ report = Unset
    /\ report' = compare_streams(extract_stream_packets(sa), extract_stream_packets(sb))
    /\ UNCHANGED <<sa, sb>>

-----------------------------------------------------------------------------
(* analyze_json.py: the packets after discovery *)

\* the entry extract_packets appends for the n-th record, as 0 or 1 entries
json_entry(d, n) ==
    LET bcudp == json_parse_bcudp_packet(to_hex(DatagramBytes(d, "wire"), ":"))
    IN  IF bcudp.type \notin {"discovery", "data", "ack"} THEN <<>>
        ELSE << [frame_num |-> n, time |-> d.time, src_ip |-> d.src_ip,
                 bcudp |-> bcudp] >>

RECURSIVE extract_packets_from(_, _)
extract_packets_from(session, n) ==
    IF n > Len(session) THEN <<>>
    ELSE json_entry(session[n], n) \o extract_packets_from(session, n + 1)

extract_packets(session) == extract_packets_from(session, 1)

\* the loop that looks for the first discovery packet from the camera: its
\* index (from 0), -1 for None
discovery_end(pkts) ==
    LET hits == { i \in 0..(Len(pkts) - 1) :
                    pkts[i + 1].bcudp.type = "discovery" /\ is_local(pkts[i + 1].src_ip) }
    IN  IF hits = {} THEN -1
        ELSE CHOOSE i \in hits : \A j \in hits : i <= j

\* 'if nl_discovery_end': None and 0 are both false
truthy(index) == index # -1 /\ index # 0

\* what compare_initial_sequence prints for one session: the marker (-1 for
\* 'not found') and the packets after it
initial_sequence(pkts) ==
    LET end == discovery_end(pkts)
    IN  [marker |-> IF truthy(end) THEN end ELSE -1,
         next |-> IF truthy(end) THEN Slice(pkts, end + 1, end + 51) ELSE <<>>]

\* compare_initial_sequence(neolink_packets, scrypted_packets)
compare_initial_sequence(neolink_packets, scrypted_packets) ==
    [type |-> "report", op |-> "compare_initial_sequence",
     nl |-> initial_sequence(neolink_packets),
     sc |-> initial_sequence(scrypted_packets)]

\* main: compare_initial_sequence(neolink_packets, scrypted_packets)
CallCompareInitialSequence ==
    /\ report = Unset
    /\ report' = compare_initial_sequence(extract_packets(sa), extract_packets(sb))
    /\ UNCHANGED <<sa, sb>>


-----------------------------------------------------------------------------
(* The analysis and comparison functions applied to pairs of sessions *)

NextCompare ==
    \/ CallAnalyzeStreamFlow /\ UNCHANGED <<decodeVars, frameVars, readerVars, mainVars>>
    \/ CallCompareFlows /\ UNCHANGED <<decodeVars, frameVars, readerVars, mainVars>>
    \/ CallSimpleCompare /\ UNCHANGED <<decodeVars, frameVars, readerVars, mainVars>>
    \/ CallCompareStreams /\ UNCHANGED <<decodeVars, frameVars, readerVars, mainVars>>
    \/ CallCompareInitialSequence
            /\ UNCHANGED <<decodeVars, frameVars, readerVars, mainVars>>

InitCompare ==
    /\ \E pr \in SessionPairs : sa = pr[1] /\ sb = pr[2]
    /\ report = Unset
    /\ hdr = NoHeader /\ payload = <<>> /\ out = NoOut /\ variants = {}
    /\ found = Unset
    /\ frame = <<>> /\ fout = NoFout
    /\ fmt = "idle" /\ recs = <<>> /\ file = <<>> /\ pos = 0 /\ pc = "idle"
    /\ packets = <<>> /\ packet_num = 0 /\ warnings = 0 /\ lastblk = NoLast
    /\ inputs = <<>> /\ finished = <<>> /\ pipes = <<>>

SpecCompare == InitCompare /\ [][NextCompare]_vars

-----------------------------------------------------------------------------
(* compare_pcaps.main with its two analyze_pcapng calls as two pipelines.    *)
(* Everything a call works on is local to it (the open file and its          *)
(* position, packets, packet_num), so each pipeline is a record of its own;  *)
(* the steps of the two are taken in any order, which covers the order main  *)
(* runs them in (first file to the end, then the second)                     *)

\* most blocks after the Section Header Block in a file of a pipeline
MaxPairRecs == 2

\* a 62-byte Ethernet/IPv4/UDP frame from the camera holding a 20-byte Data
\* packet with this packet id
FrameDataLE(id) ==
    Cut(EthFrame(69, 17, <<192, 168, 1, 10>>, 28,
                 DatagramBytes(Dg("data", CameraIp, id, "min", 0), "le")), 62)

PairNames == {"epb", "data_a", "data_b"}

PairCatalog(name) ==
    CASE name = "data_a" ->
           Blk(EPB_TYPE, TRUE, Word(0, 1), Word(0, 1), Word(0, 62),
               FrameDataLE(7), <<>>, TRUE)
      [] name = "data_b" ->
           Blk(EPB_TYPE, TRUE, Word(0, 1), Word(0, 2), Word(0, 62),
               FrameDataLE(8), <<>>, TRUE)
      [] OTHER -> PcapngCatalog(name)

RECURSIVE RenderPair(_)
RenderPair(rs) ==
    IF rs = <<>> THEN <<>>
    ELSE RenderBlk(PairCatalog(Head(rs))) \o RenderPair(Tail(rs))

PairRecLists ==
    { <<"shb_bad">> }
    \cup { <<"shb">> \o t : t \in UNION { [1..n -> PairNames] : n \in 0..MaxPairRecs } }

\* the locals of an analyze_pcapng call on a file with these bytes, before
\* its first read.  overlapped records that the call took a step while the
\* other call was inside its loop
StartPipe(bytes) ==
    [file |-> bytes, pos |-> 0, pc |-> "start", packets |-> <<>>,
     packet_num |-> 0, overlapped |-> FALSE]

\* one read_pcapng_block call of analyze_pcapng and what the function does
\* with the block, on the locals s
pipe_step(s) ==
    LET block == read_pcapng_block(s.file, s.pos)
    IN  IF s.pc = "start"
        THEN [s EXCEPT !.pos = block.pos,
                       !.pc = IF ~block.ok \/ block.block_type # SHB_TYPE
                              THEN "invalid" ELSE "loop"]
        ELSE IF ~block.ok
        THEN [s EXCEPT !.pos = block.pos, !.pc = "done"]
        ELSE [s EXCEPT !.pos = block.pos,
                       !.packets = @ \o pcapng_entries(block, s.packet_num),
                       !.packet_num = @ + Len(pcapng_entries(block, s.packet_num))]

Other(who) == IF who = "a" THEN "b" ELSE "a"

after_step_m(ps, who) ==
    LET s == pipe_step(ps[who])
    IN  [w \in DOMAIN ps |-> IF w = who THEN s
                             ELSE [ps[w] EXCEPT !.packets = s.packets]]
\* the two pipelines after pipeline who took a step: the other one's locals
\* are not touched
after_step(ps, who) ==
    [ps EXCEPT ![who] = [pipe_step(@) EXCEPT
                            !.overlapped = @ \/ ps[Other(who)].pc = "loop"]]

\* a step of one of the two analyze_pcapng calls
StepPipe ==
    \E who \in {"a", "b"} :
        /\ pipes[who].pc \in {"start", "loop"}
        /\ pipes' = after_step(pipes, who)
        /\ UNCHANGED <<inputs, finished, report>>

\* main: compare_flows(neolink_packets, scrypted_packets) once both calls
\* have returned
CompareFlowsOfPair ==
    /\ \A who \in {"a", "b"} : pipes[who].pc \in {"done", "invalid"}
    /\ report = Unset
    /\ report' = compare_flows(pipes["a"].packets, pipes["b"].packets)
    /\ UNCHANGED mainVars

NextPair ==
    \/ StepPipe /\ UNCHANGED <<decodeVars, frameVars, readerVars, sa, sb>>
    \/ CompareFlowsOfPair /\ UNCHANGED <<decodeVars, frameVars, readerVars, sa, sb>>

InitPair ==
    /\ inputs \in PairRecLists \X PairRecLists
    /\ pipes = [who \in {"a", "b"} |->
                    StartPipe(RenderPair(inputs[IF who = "a" THEN 1 ELSE 2]))]
    /\ finished = <<>>
    /\ sa = <<>> /\ sb = <<>> /\ report = Unset
    /\ hdr = NoHeader /\ payload = <<>> /\ out = NoOut /\ variants = {}
    /\ found = Unset
    /\ frame = <<>> /\ fout = NoFout
    /\ fmt = "idle" /\ recs = <<>> /\ file = <<>> /\ pos = 0 /\ pc = "idle"
    /\ packets = <<>> /\ packet_num = 0 /\ warnings = 0 /\ lastblk = NoLast

SpecPair == InitPair /\ [][NextPair]_vars

-----------------------------------------------------------------------------
(* Properties of the BCUDP decoders (SpecDecode) *)

\* a result without the bookkeeping of how far the decoder looked
Core(r) == [k \in DOMAIN r \ {"need"} |-> r[k]]

DataMagics == {MagicWire(BCUDP_MAGIC_DATA), MagicLE(BCUDP_MAGIC_DATA)}
AckMagics == {MagicWire(BCUDP_MAGIC_ACK), MagicLE(BCUDP_MAGIC_ACK)}

\* C1: for the same payload bytes the hex-string path (analyze_json) and the
\* binary path (compare_pcaps) return the same result: both nothing, or the
\* same variant with the same field values.
C1_HexPathEqualsBinaryPath ==
    (out.pcapng.type # "unset" /\ out.json.type # "unset")
        => Core(out.pcapng) = Core(out.json)

\* C2: every decoder's answer is one of Discovery, Data, Ack or nothing, and
\* the payloads that share the first 4 bytes never receive two different
\* variants, whichever decoder classified them and whatever follows the
\* first 4 bytes.
C2_ClassificationByPrefix ==
    /\ \A d \in DOMAIN out :
          out[d].type \in {"unset", "none", "discovery", "data", "ack"}
    /\ Cardinality(variants) <= 1

\* a payload of 4 or more bytes came back unrecognised from one decoder
\* after a payload with the same first 4 bytes was classified Data
C2_Witness ==
    /\ variants = {"data"}
    /\ Len(payload) >= 4
    /\ out.pcapng.type = "none"
    /\ out.stream.type = "none"

DataOf(h) == [type |-> "data", connection_id |-> h.conn,
              packet_id |-> h.f12, payload_len |-> h.f16]
AckOf(h) == [type |-> "ack", connection_id |-> h.conn,
             group_id |-> h.f12, packet_id |-> h.f16]

\* the 4 bytes a decoder recognises as the magic number m: the binary path
\* reads them least significant byte first, the hex-string paths in wire
\* order (C1 is about that difference)
OwnMagic(d, m) == IF d = "pcapng" THEN MagicLE(m) ELSE MagicWire(m)

\* C4: a Data header laid out by the wire layout table (the magic a decoder
\* recognises at 0, connection_id signed little-endian at 4, packet_id at 12,
\* payload_len at 16), of 20 bytes or more, decodes in that decoder to Data
\* with exactly the field values it was laid out from; an Ack header
\* (group_id at 12, packet_id at 16) of 28 bytes or more decodes to Ack with
\* its field values.
C4_RoundTrip ==
    \A d \in DOMAIN out :
        /\ ( /\ out[d].type # "unset"
             /\ hdr.magic = OwnMagic(d, BCUDP_MAGIC_DATA)
             /\ Len(payload) >= 20 ) => Core(out[d]) = DataOf(hdr)
        /\ ( /\ out[d].type # "unset"
             /\ hdr.magic = OwnMagic(d, BCUDP_MAGIC_ACK)
             /\ Len(payload) >= 28 ) => Core(out[d]) = AckOf(hdr)

\* a Data header of exactly 20 bytes with the extreme field values was
\* decoded by the binary path
C4_Witness ==
    /\ out.pcapng.type = "data"
    /\ Len(payload) = 20
    /\ hdr.conn < -1
    /\ hdr.f12 = Word(65535, 65535)

-----------------------------------------------------------------------------
(* Properties of the frame decoders (SpecFrame) *)

\* C5: for the same frame bytes the legacy pipeline and the block-structured
\* pipeline end the same way, and when they yield a packet they report the
\* ports held at frame offsets 34..37 and the payload of udp_length - 8 bytes
\* that follows the UDP header.
C5_PipelinesAgreeOnFrame ==
    (fout.pcapng.type # "unset" /\ fout.legacy.type # "unset")
        => /\ fout.legacy.type = fout.pcapng.type
           /\ fout.pcapng.type \in {"discovery", "data", "ack"}
                => \A o \in {fout.pcapng, fout.legacy} :
                      /\ o.src_port = u16be(Slice(frame, 34, 36))
                      /\ o.dst_port = u16be(Slice(frame, 36, 38))
                      /\ o.payload = Slice(frame, 42,
                                           42 + u16be(Slice(frame, 38, 40)) - 8)

\* C7: extract_udp_packet returns a datagram exactly when the frame has 42
\* bytes or more, byte 14 is 0x45 and byte 23 is 17; otherwise it returns
\* nothing; it never raises.
C7_FrameDecoderAccepts ==
    fout.udp.type # "unset"
        => /\ fout.udp.type \in {"udp", "none"}
           /\ fout.udp.type = "udp"
                <=> (Len(frame) >= 42 /\ frame[15] = 69 /\ frame[24] = 17)

\* a datagram came out of a frame whose UDP length field is below 8, and of
\* one whose length field exceeds the bytes the frame holds
C7_Witness ==
    /\ fout.udp.type = "udp"
    /\ \/ u16be(Slice(frame, 38, 40)) < 8
       \/ u16be(Slice(frame, 38, 40)) > Len(frame)

-----------------------------------------------------------------------------
(* Properties of the container readers (Spec) *)

RECURSIVE LenAll(_, _)
LenAll(f, rs) == IF rs = <<>> THEN 0 ELSE Len(Render(f, Head(rs))) + LenAll(f, Tail(rs))

\* how many of the records the file was laid out from end at or before
\* offset n
NumWithin(n) ==
    Cardinality({k \in 1..Len(recs) : LenAll(fmt, SubSeq(recs, 1, k)) <= n})

\* the records the reader has gone past / the records wholly in the file
Consumed == SubSeq(recs, 1, NumWithin(pos))
Complete == SubSeq(recs, 1, NumWithin(Len(file)))

\* the records after the leading one
AfterHead(rs) == IF rs = <<>> THEN <<>> ELSE Tail(rs)

Truncated == Len(file) < LenAll(fmt, recs)

StripNum(ps) == [i \in 1..Len(ps) |-> [k \in DOMAIN ps[i] \ {"num"} |-> ps[i][k]]]

\* what a block of the catalog is to contribute, from the parts it was laid
\* out from: nothing unless its type is 6 and its body holds the 16-byte
\* header; else the frame is the first caplen bytes after the header, stamped
\* (ts_hi, ts_lo), and it contributes when the frame decodes to a BCUDP packet
ExpectedOfBlk(c) ==
    IF c.type # EPB_TYPE \/ ~c.hasHdr THEN <<>>
    ELSE LET e == pcapng_frame(Cut(c.frame, AsLen(c.caplen)))
         IN  IF e.type \in {"none", "raise"} THEN <<>>
             ELSE << [timestamp |-> [high |-> c.ts_hi, low |-> c.ts_lo],
                      src_ip |-> e.src_ip, dst_ip |-> e.dst_ip,
                      src_port |-> e.src_port, dst_port |-> e.dst_port,
                      bcudp |-> e.bcudp, raw_payload |-> hex(e.payload)] >>

\* what a record of the legacy catalog is to contribute
ExpectedOfLegacy(name) ==
    IF name = "udp_disc"
    THEN << [ts |-> [sec |-> Word(0, 3), usec |-> Word(7, 41248)],
             src_port |-> 4660, dst_port |-> 258, type |-> "discovery",
             data |-> MagicWire(BCUDP_MAGIC_DISCOVERY)] >>
    ELSE <<>>

RECURSIVE Expected(_, _)
Expected(f, rs) ==
    IF rs = <<>> THEN <<>>
    ELSE (IF f = "pcapng" THEN ExpectedOfBlk(PcapngCatalog(Head(rs)))
          ELSE ExpectedOfLegacy(Head(rs)))
         \o Expected(f, Tail(rs))

\* C6: no pipeline stage ends by raising: every reader, frame-decoding and
\* BCUDP-decoding step returns a value or nothing.
C6_NoStageRaises == pc # "raised"

\* C8: when the file is cut inside a record (after a complete leading
\* header), either reader stops without an error and returns exactly the
\* packets of the complete records before the cut, in file order.
C8_TruncationNonFatal ==
    (Truncated /\ Len(Complete) >= 1 /\ pc \in {"done", "raised"})
        => /\ pc = "done"
           /\ StripNum(packets) = Expected(fmt, AfterHead(Complete))

\* the same for the block-structured reader alone, where it holds
PcapngTruncationNonFatal ==
    (fmt = "pcapng" /\ recs[1] = "shb" /\ Truncated /\ pc \in {"done", "raised", "invalid"})
        => /\ pc # "raised"
           /\ StripNum(packets) = Expected(fmt, AfterHead(Complete))

Mismatches(rs) ==
    Cardinality({k \in 1..Len(rs) : ~PcapngCatalog(rs[k]).match})

\* C9: a block whose trailing length differs from its leading length does
\* not stop the block-structured reader: each such block adds one warning, is
\* returned with the body the leading length delimits, and the reader goes
\* on to the next block; it stops only where the file holds no further
\* complete block.
C9_LengthMismatchNonFatal ==
    (fmt = "pcapng" /\ pc \in {"loop", "done"})
        => /\ warnings = Mismatches(Consumed)
           /\ pc = "done" => NumWithin(pos) = NumWithin(Len(file))
           /\ (lastblk.ok /\ lastblk.warn = 1)
                => /\ pc = "loop"
                   /\ lastblk.block_body =
                        Slice(file, lastblk.start + 8,
                              lastblk.start + AsLen(lastblk.block_length))
                   /\ pos = lastblk.start + AsLen(lastblk.block_length) + 4

\* the reader finished a file in which a complete packet block follows a
\* block with a mismatched trailing length, having decoded both
C9_Witness ==
    /\ pc = "done"
    /\ recs = <<"shb", "epb_mismatch", "epb">>
    /\ ~Truncated
    /\ warnings = 1
    /\ Len(packets) = 2

\* C10: after the Section Header Block only blocks of type 6 contribute:
\* the decoded-packet list is, in file order, what the type-6 blocks gone
\* past contribute, each stamped with the words at body offsets 4 (high) and
\* 8 (low) and decoded from the captured_len bytes at body offset 16, cut to
\* what the body holds; other blocks and bodies under 16 bytes add nothing.
C10_OnlyPacketBlocksDecoded ==
    (fmt = "pcapng" /\ pc \in {"loop", "done"})
        => /\ StripNum(packets) = Expected(fmt, AfterHead(Consumed))
           /\ \A i \in 1..Len(packets) : packets[i].num = i - 1

\* the reader finished a file holding a block of another type with a packet
\* block's body, or a packet block with a body under 16 bytes, and then a
\* packet block whose captured length exceeds its body
C10_Witness ==
    /\ pc = "done"
    /\ ~Truncated
    /\ Len(recs) >= 3
    /\ recs[1] = "shb" /\ recs[2] \in {"idb", "epb_short"} /\ recs[3] = "epb_overlong"
    /\ Len(packets) = 1
    /\ packets[1].timestamp = [high |-> Word(3, 0), low |-> Word(0, 9)]

-----------------------------------------------------------------------------
(* Properties of the scripts' main (SpecMain) *)

BadHead(rs) == rs[1] \in {"shb_bad", "pcap_bad"}

\* what the analyze call returns for a file read on its own
Alone(f, rs) ==
    IF f = "pcapng" THEN analyze_pcapng(RenderAll(f, rs))
    ELSE analyze_pcap(RenderAll(f, rs))

\* the format-error property for the script reading format f
FormatErrorContained(f) ==
    (fmt = f /\ pc \in {"end", "raised"} /\ \E k \in 1..2 : BadHead(inputs[k]))
        => /\ Len(finished) = 2
           /\ \A k \in 1..2 :
                 BadHead(inputs[k])
                    => /\ finished[k] = [end |-> "invalid", packets |-> <<>>]
                       /\ finished[3 - k].end \in {"done", "invalid"}
                       /\ finished[3 - k] = Alone(f, inputs[3 - k])

\* C11: when main has ended, a file whose leading bytes are not the expected
\* magic has ended only its own analysis, reported as invalid and with no
\* packets, and the other file was analysed to completion with the result it
\* has when read on its own; for both scripts.
C11_FormatErrorContained ==
    FormatErrorContained("pcapng") /\ FormatErrorContained("pcap")

\* the same for the block-structured script alone, where it holds
PcapngFormatErrorContained == FormatErrorContained("pcapng")

\* main ended after a file with a wrong first block and a file that yields a
\* packet, in either order
PcapngFormatErrorWitness ==
    /\ fmt = "pcapng" /\ pc = "end"
    /\ \E k \in 1..2 :
          /\ BadHead(inputs[k])
          /\ Len(finished[3 - k].packets) = 1

-----------------------------------------------------------------------------
(* Properties of the analysis and comparison functions (SpecCompare) *)

\* the ids of the camera's Data datagrams of a session, as a set
CameraDataIds(session) ==
    { session[i].id : i \in { j \in 1..Len(session) :
          session[j].type = "data" /\ is_local(session[j].src_ip) } }

\* the maximal runs <<a, b>> of integers absent from ids between its
\* smallest and largest member
MissingRuns(ids) ==
    { <<a, b>> \in (ids \X ids) :
        /\ a < b - 1
        /\ \A x \in ids : ~(a < x /\ x < b) }

GapExample ==
    (report.type # "unset" /\ report.op = "analyze_stream_flow"
     /\ sa = WithIds(<<1, 2, 4, 5>>))
        => report.shown = <<<<3, 3>>>>

\* the first Data datagram of a session, as a sequence of 0 or 1 datagrams
FirstData(session) ==
    LET d == SelectSeq(session, LAMBDA q : q.type = "data")
    IN  IF d = <<>> THEN <<>> ELSE <<d[1]>>

\* the payloads of the first Data datagrams of the two sessions
PayloadA == DatagramBytes(FirstData(sa)[1], "wire")
PayloadB == DatagramBytes(FirstData(sb)[1], "wire")

BothHaveData == FirstData(sa) # <<>> /\ FirstData(sb) # <<>>

\* C13: when both sessions hold a Data packet, the comparators
\* (compare_flows, the main of simple_compare) report the first Data packets
\* identical exactly when the two payloads are equal byte for byte over
\* their whole length.
C13_FirstPacketIdentity ==
    (report.type = "report" /\ report.op \in {"compare_flows", "simple_compare"}
     /\ BothHaveData)
        => /\ report.verdict # "absent"
           /\ report.verdict \in {"same", "identical"} <=> PayloadA = PayloadB

\* the same restricted to payloads that agree or differ within the first 40
\* bytes and are followed by the same bytes, where it holds
IdentityWithin40 ==
    (report.type = "report" /\ report.op \in {"compare_flows", "simple_compare"}
     /\ BothHaveData /\ Len(sa) = 1 /\ Len(sb) = 1
     /\ Len(PayloadA) = Len(PayloadB)
     /\ Slice(PayloadA, 40, 52) = Slice(PayloadB, 40, 52))
        => /\ report.verdict # "absent"
           /\ report.verdict \in {"same", "identical"} <=> PayloadA = PayloadB

\* the smallest index at which two byte strings differ: an index where both
\* hold a byte and the bytes differ, else the length of the shorter when one
\* is a proper prefix of the other, else -1
FirstDiff(x, y) ==
    LET n == Min(Len(x), Len(y))
        diff == { i \in 0..(n - 1) : x[i + 1] # y[i + 1] }
    IN  IF diff # {} THEN CHOOSE i \in diff : \A j \in diff : i <= j
        ELSE IF Len(x) # Len(y) THEN n
        ELSE -1

\* C14: whenever the main of simple_compare reports the first Data packets
\* different, it reports a first-difference offset, and the offset is the
\* smallest byte index at which the two payloads differ, the length of the
\* shorter one when it is a proper prefix of the other.
C14_FirstDifferenceOffset ==
    (report.type = "report" /\ report.op = "simple_compare"
     /\ report.verdict = "different")
        => /\ report.offset # -1
           /\ report.offset = FirstDiff(PayloadA, PayloadB)

\* the same for payloads of equal length, each the only one in its file,
\* where it holds: payloads that agree up to byte 23 and differ at byte 24
\* are reported different at offset 24
OffsetWithinPayload ==
    (report.type = "report" /\ report.op = "simple_compare"
     /\ report.verdict = "different"
     /\ Len(sa) = 1 /\ Len(sb) = 1 /\ Len(PayloadA) = Len(PayloadB))
        => /\ report.offset # -1
           /\ report.offset = FirstDiff(PayloadA, PayloadB)

OffsetWithinPayloadWitness ==
    /\ report.type = "report" /\ report.op = "simple_compare"
    /\ Len(sa) = 1 /\ Len(sb) = 1
    /\ sa[1].body = "base" /\ sb[1].body = "d24" /\ sa[1].id = sb[1].id
    /\ report.offset = 24

\* the camera Data datagrams of a session the stream script decodes
CameraData(session) ==
    SelectSeq(session, LAMBDA q : q.type = "data" /\ is_local(q.src_ip))

\* the rate of a list of datagrams in packets a second (the times are in
\* milliseconds), as a quotient <<numerator, denominator>>: count / duration,
\* 0 with no packet, one packet or no positive duration
RateOf(ds) ==
    IF Len(ds) <= 1 \/ ds[Len(ds)].time - ds[1].time <= 0 THEN <<0, 1>>
    ELSE <<Len(ds) * 1000, ds[Len(ds)].time - ds[1].time>>

\* B's rate is less than half of A's
LessThanHalf(rb, ra) == 2 * rb[1] * ra[2] < ra[1] * rb[2]

\* C15: compare_streams flags the rate anomaly exactly when session B's
\* camera Data rate is less than half of session A's, a session with no such
\* packets, one packet or zero duration having rate 0; in particular it
\* flags a B with no Data packets against an A of positive rate.
C15_RateAnomalyFlag ==
    (report.type = "report" /\ report.op = "compare_streams")
        => (report.warning <=>
                LessThanHalf(RateOf(CameraData(sb)), RateOf(CameraData(sa))))

\* the same when both sessions have camera Data packets, where it holds
RateFlagBothPresent ==
    (report.type = "report" /\ report.op = "compare_streams"
     /\ CameraData(sa) # <<>> /\ CameraData(sb) # <<>>)
        => (report.warning <=>
                LessThanHalf(RateOf(CameraData(sb)), RateOf(CameraData(sa))))

\* ids 100..149 at 25 a second in A and at 10 a second in B: the count ratio
\* is 100 percent and the anomaly is flagged
RateFlagWitness ==
    /\ report.type = "report" /\ report.op = "compare_streams"
    /\ sa = Run(50, 100, 1, 40) /\ sb = Run(50, 100, 1, 100)
    /\ report.data_ratio.num = report.data_ratio.den * 100
    /\ report.warning

\* the index (from 0) of the first Discovery datagram of a session whose
\* source address is local, -1 when there is none
FirstLocalDiscovery(session) ==
    LET hits == { i \in 0..(Len(session) - 1) :
                    session[i + 1].type = "discovery" /\ is_local(session[i + 1].src_ip) }
    IN  IF hits = {} THEN -1
        ELSE CHOOSE i \in hits : \A j \in hits : i <= j

\* the record numbers (from 1) of the up-to-50 datagrams that follow index m
Following(session, m) ==
    IF m = -1 THEN <<>>
    ELSE [k \in 1..Min(50, Len(session) - (m + 1)) |-> m + 1 + k]

\* one side of the report carries the marker and the packets after it
MarkerIs(side, session, m) ==
    /\ side.marker = m
    /\ [k \in 1..Len(side.next) |-> side.next[k].frame_num] = Following(session, m)

\* C16: the 'Discovery completed' marker of each session is the index of its
\* first Discovery packet from a local source address, index 0 included,
\* 'not found' only when there is none, and the packets after discovery are
\* the up-to-50 packets that follow that index.
C16_DiscoveryMarker ==
    (report.type = "report" /\ report.op = "compare_initial_sequence")
        => /\ MarkerIs(report.nl, sa, FirstLocalDiscovery(sa))
           /\ MarkerIs(report.sc, sb, FirstLocalDiscovery(sb))

\* the same for sessions that do not begin with that packet, where it holds
MarkerAfterFirstPacket ==
    (report.type = "report" /\ report.op = "compare_initial_sequence"
     /\ FirstLocalDiscovery(sa) # 0 /\ FirstLocalDiscovery(sb) # 0)
        => /\ MarkerIs(report.nl, sa, FirstLocalDiscovery(sa))
           /\ MarkerIs(report.sc, sb, FirstLocalDiscovery(sb))

MarkerAfterFirstPacketWitness ==
    /\ report.type = "report" /\ report.op = "compare_initial_sequence"
    /\ sa = Handshake(52)
    /\ report.nl.marker = 1 /\ Len(report.nl.next) = 50

\* the client Ack datagrams of a session
ClientAck(session) ==
    SelectSeq(session, LAMBDA q : q.type = "ack" /\ ~is_local(q.src_ip))

\* r is a number, and it is the percentage count_b / count_a, 0 when
\* count_a is 0
RatioIs(r, count_b, count_a) ==
    /\ r.type = "number"
    /\ r.den > 0
    /\ IF count_a > 0 THEN r.num * count_a = 100 * count_b * r.den
       ELSE r.num = 0

RateIs(r, ds) ==
    /\ r.type = "number"
    /\ r.den > 0 /\ r.num >= 0
    /\ r.num * RateOf(ds)[2] = RateOf(ds)[1] * r.den

ZeroDurationWitness ==
    /\ report.type = "report" /\ report.op = "compare_streams"
    /\ Len(CameraData(sa)) = 2
    /\ report.nl_rate.type = "number" /\ report.nl_rate.num = 0

\* C19: the comparison is symmetric under swapping the two sessions: the
\* verdict on the first Data packets is the same for (A, B) and (B, A), and
\* when both counts are positive the two ratios are reciprocal (as
\* percentages, their product is 100 * 100).
C19_SwapSymmetry ==
    /\ (report.type = "report" /\ report.op = "compare_flows")
         => report.verdict = compare_flows(flow_packets(sb), flow_packets(sa)).verdict
    /\ (report.type = "report" /\ report.op = "compare_streams")
         => LET swapped == compare_streams(extract_stream_packets(sb),
                                           extract_stream_packets(sa))
            IN  /\ (report.nl_camera_data > 0 /\ report.sc_camera_data > 0)
                     => report.data_ratio.num * swapped.data_ratio.num
                            = 10000 * report.data_ratio.den * swapped.data_ratio.den
                /\ (report.nl_client_ack > 0 /\ report.sc_client_ack > 0)
                     => report.ack_ratio.num * swapped.ack_ratio.num
                            = 10000 * report.ack_ratio.den * swapped.ack_ratio.den

\* first Data packets of different lengths, reported different
C19_Witness ==
    /\ report.type = "report" /\ report.op = "compare_flows"
    /\ BothHaveData
    /\ Len(PayloadA) < Len(PayloadB)
    /\ report.verdict = "different"

\* sessions with different positive counts
ReciprocalWitness ==
    /\ report.type = "report" /\ report.op = "compare_streams"
    /\ report.nl_camera_data > 0 /\ report.sc_camera_data > report.nl_camera_data

\* the packets of a session the stream script decodes, in capture order
Decoded(session) == SelectSeq(session, LAMBDA q : q.type \in {"data", "ack"})

\* the record numbers of a list of packets / of the datagrams of a session
\* that satisfy a test, in order
FrameNums(pkts) == [k \in 1..Len(pkts) |-> pkts[k].frame_num]

NumsWhere(session, Test(_)) ==
    SelectSeq([k \in 1..Len(session) |-> k], LAMBDA k : Test(session[k]))

-----------------------------------------------------------------------------
(* Properties of the two pipelines (SpecPair) *)

Returned(who) == pipes[who].pc \in {"done", "invalid"}

\* C21: in every interleaving of the steps of the two analyze_pcapng calls,
\* the packet list a call returns is the list the call returns when its file
\* is analysed alone, for both calls, and the comparison main prints is the
\* comparison of those two lists, whatever the order of the steps.
C21_PipelinesIndependent ==
    /\ \A who \in {"a", "b"} :
          Returned(who)
             => pipes[who].packets = analyze_pcapng(pipes[who].file).packets
    /\ report.type = "report"
          => report = compare_flows(analyze_pcapng(pipes["a"].file).packets,
                                    analyze_pcapng(pipes["b"].file).packets)

\* both calls took steps while the other was inside its loop, both returned
\* packets, of different number, and main compared them
C21_Witness ==
    /\ report.type = "report"
    /\ pipes["a"].overlapped /\ pipes["b"].overlapped
    /\ Len(pipes["a"].packets) = 2 /\ Len(pipes["b"].packets) = 1
    /\ report.verdict = "different"

-----------------------------------------------------------------------------
(* Properties of the reader over files in the layout of the format          *)
(* (SpecBlocks)                                                              *)

\* the file offset of the first byte of block k of a file laid out from rs
\* (the length of the file for k one past the last block)
StdOffset(rs, k) == Len(RenderStdAll(SubSeq(rs, 1, k - 1)))

\* the index of the first block that declares a total length below 12, one
\* past the last block when there is none
FirstTiny(rs) ==
    IF \E k \in 1..Len(rs) : rs[k] = "tiny"
    THEN CHOOSE k \in 1..Len(rs) : rs[k] = "tiny" /\ \A j \in 1..(k - 1) : rs[j] # "tiny"
    ELSE Len(rs) + 1

\* C22: on a file of blocks laid back to back, each occupying exactly its
\* total length with its last 4 bytes repeating it, every call of
\* read_pcapng_block that returns a block starts at the first byte of a
\* block, returns that block and leaves the position at the first byte of
\* the next one, no length-mismatch warning is printed, and the calls go on
\* until the end of the file, or until a block that declares a total length
\* below 12, which ends the sequence as a truncated block does.
C22_BlocksInFileOrder ==
    /\ warnings = 0
    /\ lastblk.ok =>
          \E k \in 1..(FirstTiny(recs) - 1) :
              /\ lastblk.start = StdOffset(recs, k)
              /\ lastblk.block_type = PcapngCatalog(recs[k]).type
              /\ lastblk.pos = StdOffset(recs, k + 1)
    /\ pc = "invalid" => recs[1] \in {"shb_bad", "tiny"}
    /\ pc = "done" =>
          /\ ~lastblk.ok
          /\ pos = IF FirstTiny(recs) <= Len(recs)
                   THEN StdOffset(recs, FirstTiny(recs)) + 8
                   ELSE Len(file)

\* the part about a declared total length below 12, where it holds: a first
\* block that declares 8 ends the reading after its 8 bytes, no block is
\* returned and the file is reported invalid, as for a truncated first block
TinyEndsSequence ==
    (recs[1] = "tiny" /\ pc # "start")
        => /\ pc = "invalid" /\ ~lastblk.ok /\ pos = 8
           /\ packets = <<>> /\ warnings = 0

TinyEndsSequenceWitness ==
    recs[1] = "tiny" /\ Len(recs) = 3 /\ pc = "invalid"

\* what the reader does instead on such files: a call takes the 4 bytes
\* after the block for the trailing length, so it needs 4 bytes more than
\* the block and leaves the position 4 bytes into the next block
ReadsFourBeyond ==
    lastblk.ok => lastblk.pos = lastblk.start + AsLen(lastblk.block_length) + 4

ReadsFourBeyondWitness ==
    /\ recs[1] = "shb" /\ Len(recs) = 3 /\ recs[2] = "epb"
    /\ lastblk.ok /\ lastblk.start = 0 /\ lastblk.pos = StdOffset(recs, 2) + 4
    /\ warnings = 1

====
